---- MODULE Spec2Model ----
(***************************************************************************)
(* Model of the document-to-narrated-video application.                    *)
(*                                                                         *)
(* The sources hold two front ends and several copies of the voice/analysis *)
(* service:                                                                *)
(*   "react"  : the React component App (src/App.tsx lines 12-463), which  *)
(*              imports ./services/geminiService;                          *)
(*   "script" : the plain-DOM program (src/App.tsx lines 468-794), which   *)
(*              imports ./services/gemini.js;                              *)
(*   "ts"     : src/services/geminiService.ts;                             *)
(*   "js1"    : src/services/gemini.js lines 1-145;                        *)
(*   "js2"    : src/services/gemini.js lines 148-264;                      *)
(*   "old"    : src/unnamed/part_001 (geminiService without retry).        *)
(*                                                                         *)
(* These specifications share the module:                                  *)
(*   Spec       - the application: phases, user events, the asynchronous   *)
(*                analysis and video-generation operations;                *)
(*   SpecJoin   - the construction of the final slide list from an         *)
(*                analysis result (a pure function of its inputs);         *)
(*   SpecSpeech - one call of generateSpeechForText: sanitisation, the     *)
(*                retry loop and its backoff waits;                        *)
(*   SpecRec    - one createVideo run in detail: codec negotiation, the    *)
(*                recorder and its events, the chunk list, the timeline of *)
(*                the slide loop and the audio context; SpecRecLive adds   *)
(*                weak fairness to it;                                     *)
(*   SpecReview - Spec with the edits of the script review panel           *)
(*                (handleNoteChange / the textarea's input listener);      *)
(*   SpecWrap   - one call of drawFrame's wrapText: the greedy line        *)
(*                breaking of a text against measureText, and the lines    *)
(*                drawn;                                                   *)
(*   SpecBox    - the letterbox of drawFrame: scale and offsets of an      *)
(*                image on the canvas;                                     *)
(*   SpecPpt    - the PPTX extractors (pptxParser.js, unnamed/part_002)    *)
(*                run on an archive listing;                               *)
(*   SpecPcm    - decodeAudioData: raw bytes to 16-bit samples to          *)
(*                amplitudes, in each copy of the function;                *)
(*   SpecLayout - a slide without image: the content the extractor keeps   *)
(*                and the bullet lines drawFrame draws from it.            *)
(***************************************************************************)
EXTENDS Integers, Sequences, FiniteSets, TLC

VARIABLES
  \* ---- Spec: the application
  impl,       \* "react" | "script": which front end runs
  encoderOk,  \* the browser's MediaRecorder accepts the type asked for
  targetFile, \* the selected file (0: null)
  fileType,   \* React: 'pdf' | 'pptx' | null ("none")
  analysis,   \* the analysis under review ([present |-> FALSE]: null)
  status,     \* appState.status / state.status
  progress,   \* appState.progress / state.progress
  errorMsg,   \* appState.error / the text of the error modal ("": none)
  errorModal, \* script: the error modal is shown
  videoUrl,   \* the output artifact handed to the video element (0: none)
  ops,        \* the asynchronous operations in flight, by slot
  \* ---- SpecJoin: analysis result -> final slides
  jImpl,      \* "react" | "script" | "pptx" (React, PPTX branch)
  jN,         \* numPages of the rendered document / pptData.slides.length
  jPpt,       \* pptData.slides as parsePptxNotes returned them
  jAi,        \* result.slides as parsed from the analysis service's JSON
  jSlides,    \* analysis.slides as installed by startAnalysis
  jDone,      \* startAnalysis has installed the analysis
  \* ---- SpecSpeech: one generateSpeechForText call
  sImpl,      \* "ts" | "js1" | "js2" | "old"
  sText,      \* the argument text (a string, or Undefined)
  sPc,        \* "start" | "call" | "inflight" | "wait" | "returned" | "thrown"
  sSafeText,  \* the script interpolated into the prompt
  sRetries,   \* withRetry's parameter retries of the current frame
  sDelay,     \* withRetry's parameter delay of the current frame (in ticks)
  sCalls,     \* number of invocations of the wrapped operation so far
  sSubmitted, \* the scripts submitted to the voice service, in order
  sWaits,     \* the backoff waits performed, in order (in ticks)
  sHist,      \* outcome of each settled attempt: "ok" or "fail"
  sResp,      \* the voice service's response to each settled attempt
  sResult,    \* the value generateSpeechForText resolved with
  sError,     \* the error generateSpeechForText rejected with
  \* ---- SpecRec: one createVideo run
  rImpl,      \* "react" | "script"
  rSupported, \* the types MediaRecorder.isTypeSupported accepts
  rSlides,    \* analysis.slides: [image, duration] of each slide
  rPc,        \* the await createVideo is suspended at
  rI,         \* the loop variable i
  rStatus,    \* appState.status / state.status
  rError,     \* the error message shown ("": none)
  rModal,     \* script: the error modal is shown
  rRec,       \* recorder.state ("none": no recorder constructed)
  rMime,      \* the mimeType the recorder was constructed with
  rPromise,   \* recordingPromise / recordingFinished
  rErrored,   \* the encoder has raised an error during the recording
  rDelivered, \* the chunks of the dataavailable events, in arrival order
  rChunks,    \* the array chunks
  rBlob,      \* the chunks of the blob onstop built
  rBlobs,     \* how many blobs onstop has built
  rUrl,       \* the blob's URL was handed to the video element
  rCtx,       \* audioCtx.state
  rCloses,    \* number of effective audioCtx.close() calls
  rPlaying,   \* a buffer source is playing into the recording
  rLog,       \* the timeline of the run
  rSynth,     \* the timeline of the synthesis requests of the run
  \* ---- SpecWrap: one wrapText call
  wText,      \* text, as the array `words` of its characters
  wMaxWidth,  \* maxWidth
  wPc,        \* "loop" | "done" | "drawn"
  wN,         \* the loop variable n
  wLine,      \* line
  wLines,     \* lines
  wShown,     \* the lines drawn on the frame: text and baseline
  \* ---- SpecBox: one image drawn by drawFrame
  bImg,       \* img.width, img.height
  bCanvas,    \* canvas.width, canvas.height
  bPc,        \* "loaded" | "drawn"
  bDrawn,     \* ratio and the arguments of ctx.drawImage
  \* ---- SpecPpt: one parsePptxNotes call
  pImpl,      \* "pptxParser" (services/pptxParser.js) | "part_002"
  pArchive,   \* the entries of the .pptx archive
  pPc,        \* "parsing" | "done" | "failed"
  pSlides,    \* the slides the call resolved with
  \* ---- SpecPcm: one decodeAudioData call
  dImpl,      \* "ts" | "js1" | "js2" | "old"
  dData,      \* data: the bytes of the payload
  dPc,        \* "start" | "viewed" | "done" | "failed"
  dInt16,     \* dataInt16 / actualData
  dBuffer,    \* the AudioBuffer returned
  \* ---- SpecLayout: one slide extracted and drawn without an image
  lParser,    \* "pptxParser" | "part_002"
  lRuns,      \* the number of non-empty text runs of the slide's XML
  lPc,        \* "parse" | "draw" | "done"
  lContent,   \* slide.content
  lDrawn,     \* the bullet lines drawn: text and baseline
  lMarker     \* the baseline of the page-number marker (0: not drawn)

appVars == <<impl, encoderOk, targetFile, fileType, analysis, status, progress, errorMsg,
             errorModal, videoUrl, ops>>
joinVars == <<jImpl, jN, jPpt, jAi, jSlides, jDone>>
speechVars == <<sImpl, sText, sPc, sSafeText, sRetries, sDelay, sCalls,
                sSubmitted, sWaits, sHist, sResp, sResult, sError>>
recEnv == <<rImpl, rSupported, rSlides>>
recUi == <<rStatus, rError, rModal>>
recRecorder == <<rRec, rMime, rPromise, rErrored>>
recData == <<rDelivered, rChunks, rBlob, rBlobs, rUrl>>
recAudio == <<rCtx, rCloses, rPlaying>>
recVars == <<recEnv, rPc, rI, recUi, recRecorder, recData, recAudio, rLog,
            rSynth>>
wrapVars == <<wText, wMaxWidth, wPc, wN, wLine, wLines, wShown>>
boxVars == <<bImg, bCanvas, bPc, bDrawn>>
pptVars == <<pImpl, pArchive, pPc, pSlides>>
pcmVars == <<dImpl, dData, dPc, dInt16, dBuffer>>
layVars == <<lParser, lRuns, lPc, lContent, lDrawn, lMarker>>
libVars == <<wrapVars, boxVars, pptVars, pcmVars, layVars>>
vars == <<appVars, joinVars, speechVars, recVars, libVars>>
notWrap ==
  <<appVars, joinVars, speechVars, recVars, boxVars, pptVars, pcmVars,
    layVars>>
notBox ==
  <<appVars, joinVars, speechVars, recVars, wrapVars, pptVars, pcmVars,
    layVars>>
notPpt ==
  <<appVars, joinVars, speechVars, recVars, wrapVars, boxVars, pcmVars,
    layVars>>
notPcm ==
  <<appVars, joinVars, speechVars, recVars, wrapVars, boxVars, pptVars,
    layVars>>
notLay ==
  <<appVars, joinVars, speechVars, recVars, wrapVars, boxVars, pptVars,
    pcmVars>>

Range(s) == {s[k] : k \in 1..Len(s)}

RECURSIVE SeqsUpTo(_, _)
\* all sequences over S of length at most n
SeqsUpTo(S, n) ==
  IF n = 0 THEN {<<>>}
  ELSE LET shorter == SeqsUpTo(S, n - 1)
       IN shorter \cup {Append(s, x) : s \in {t \in shorter : Len(t) = n - 1}, x \in S}

(***************************************************************************)
(* Bounds of the model                                                     *)
(***************************************************************************)
MaxPages == 3     \* documents have 1..MaxPages pages
MaxAiLen == 3     \* the analysis service lists at most MaxAiLen slide entries
MaxLen == 3       \* narration scripts have at most MaxLen characters
MaxFiles == 4     \* the files the user can pick
MaxOps == 2       \* asynchronous operations in flight at the same time
MaxSlides == 2    \* a createVideo run has 1..MaxSlides slides
MaxChunks == 2    \* dataavailable events delivered before the final one
MaxPptSlides == 2 \* slides of a PPTX handed to the join

(***************************************************************************)
(* Analysis result -> final slide list                                     *)
(*                                                                         *)
(* Strings are TLA+ strings; "" is the empty (falsy) string.  The Japanese *)
(* literals of the source are transliterated:                              *)
(*   `ページ ${i + 1}`                -> "Page <i+1>"                        *)
(*   "解説を生成できませんでした。"   -> "(no commentary generated)"         *)
(* An image is identified by the 1-based number of the page it was         *)
(* rendered from; 0 stands for null/undefined.                             *)
(***************************************************************************)
NoImage == 0

AiTitles == {"", "Ta", "Tb"}
AiNotes == {"", "Sa"}
\* the entries the analysis service can put in "slides"; the page index is the
\* service's choice, so it may repeat, be missing or lie outside the document
AiEntries == [pageIndex : 0..(MaxPages - 1), title : AiTitles, notes : AiNotes]
AiResults == SeqsUpTo(AiEntries, MaxAiLen)

\* renderPdfToImages: images[k] (0-based k) is the rendering of page k + 1
Images(N) == [p \in 1..N |-> p]

\* JS `a || b` on strings
OrElse(a, b) == IF a = "" THEN b ELSE a

PlaceholderTitle(i) == "Page " \o ToString(i + 1)
PlaceholderNotes == "(no commentary generated)"

\* Array.prototype.sort((a, b) => a.pageIndex - b.pageIndex): stable, so an
\* entry is placed after every earlier entry whose pageIndex is not larger
InsertByPageIndex(s, e) ==
  LET n == Cardinality({j \in 1..Len(s) : s[j].pageIndex <= e.pageIndex})
  IN SubSeq(s, 1, n) \o <<e>> \o SubSeq(s, n + 1, Len(s))

RECURSIVE SortByPageIndex(_)
SortByPageIndex(s) ==
  IF s = <<>> THEN <<>>
  ELSE InsertByPageIndex(SortByPageIndex(SubSeq(s, 1, Len(s) - 1)), s[Len(s)])

\* what analyzePdfForPpt returns as result.slides for the parsed entries `raw`:
\* geminiService (imported by the React App) sorts, gemini.js (imported by the
\* script) returns JSON.parse's array as it is
AnalyzedSlides(im, raw) ==
  IF im = "react" THEN SortByPageIndex(raw) ELSE raw

\* result.slides.find(s => s.pageIndex === i): position of the first match, 0
\* when find returns undefined
FindByPageIndex(s, i) ==
  LET M == {j \in 1..Len(s) : s[j].pageIndex = i}
  IN IF M = {} THEN 0 ELSE CHOOSE j \in M : \A k \in M : j <= k

\* React startAnalysis, PDF branch: the for loop building finalSlides
ReactFinalSlides(ai, N) ==
  [p \in 1..N |->
     LET i == p - 1
         k == FindByPageIndex(ai, i)
     IN [pageIndex |-> i,
         title |-> IF k = 0 THEN PlaceholderTitle(i)
                   ELSE OrElse(ai[k].title, PlaceholderTitle(i)),
         notes |-> IF k = 0 THEN PlaceholderNotes
                   ELSE OrElse(ai[k].notes, PlaceholderNotes),
         imageUrl |-> Images(N)[p]]]

\* script startAnalysis: aiResult.slides.map((s, idx) => ({...s, imageUrl:
\* images[idx] || null}))
ScriptFinalSlides(ai, N) ==
  [p \in 1..Len(ai) |->
     [pageIndex |-> ai[p].pageIndex,
      title |-> ai[p].title,
      notes |-> ai[p].notes,
      imageUrl |-> IF p <= N THEN Images(N)[p] ELSE NoImage]]

FinalSlides(im, raw, N) ==
  IF im = "react" THEN ReactFinalSlides(AnalyzedSlides(im, raw), N)
  ELSE ScriptFinalSlides(AnalyzedSlides(im, raw), N)

\* joinVars in the specifications that do not use them
JoinIdle ==
  /\ jImpl = "none" /\ jN = 0 /\ jAi = <<>> /\ jSlides = <<>> /\ jDone = FALSE
  /\ jPpt = <<>>

\* React: lines 72-83, the analysis is installed with the joined slides
JoinInstallReact ==
  /\ jImpl = "react" /\ ~jDone
  /\ jSlides' = FinalSlides("react", jAi, jN)
  /\ jDone' = TRUE
  /\ UNCHANGED <<jImpl, jN, jPpt, jAi>>
  /\ UNCHANGED <<appVars, speechVars, recVars, libVars>>

\* script: lines 599-608
JoinInstallScript ==
  /\ jImpl = "script" /\ ~jDone
  /\ jSlides' = FinalSlides("script", jAi, jN)
  /\ jDone' = TRUE
  /\ UNCHANGED <<jImpl, jN, jPpt, jAi>>
  /\ UNCHANGED <<appVars, speechVars, recVars, libVars>>

(***************************************************************************)
(* generateSpeechForText: sanitisation and retry with backoff              *)
(*                                                                         *)
(* A script is a sequence of characters over {" ", "a"} (" " stands for    *)
(* any white space, "a" for any other character), or Undefined for a       *)
(* missing value.  The fixed phrases are single tokens:                    *)
(*   "（説明なし）"        -> <<"(no description)">>     (geminiService.ts) *)
(*   "解説はありません。"  -> <<"(no commentary)">>      (gemini.js)        *)
(*   `${undefined}`        -> <<"undefined">>                              *)
(* Time is counted in microseconds, so that 1500 ms * 1.5 * 1.5 * 1.5 is   *)
(* an integer.                                                             *)
(***************************************************************************)
Undefined == <<"#undefined">>
Chars == {" ", "a"}
Scripts == SeqsUpTo(Chars, MaxLen) \cup {Undefined}

SpeechImpls == {"ts", "js1", "js2", "old"}
\* the copies whose generateSpeechForText goes through withRetry
RetryImpls == {"ts", "js1", "js2"}

RECURSIVE TrimStart(_)
TrimStart(t) ==
  IF t # <<>> /\ Head(t) = " " THEN TrimStart(Tail(t)) ELSE t

RECURSIVE TrimEnd(_)
TrimEnd(t) ==
  IF t # <<>> /\ t[Len(t)] = " " THEN TrimEnd(SubSeq(t, 1, Len(t) - 1)) ELSE t

\* String.prototype.trim
Trim(t) == TrimEnd(TrimStart(t))

PlaceholderPhrase(im) ==
  IF im = "ts" THEN <<"(no description)">> ELSE <<"(no commentary)">>

\* does computing safeText throw?  geminiService.ts calls text.trim() on the
\* argument itself, a TypeError when it is undefined or null
SanitizeThrows(im, text) == im = "ts" /\ text = Undefined

\* the script interpolated into the prompt
\*   ts  : text.trim().length > 0 ? text.trim() : "（説明なし）"
\*   js1, js2 : (text || "").trim() || "解説はありません。"
\*   old : text itself (template literal `${text}`)
SafeText(im, text) ==
  CASE im = "ts" ->
         IF Len(Trim(text)) > 0 THEN Trim(text) ELSE PlaceholderPhrase(im)
    [] im \in {"js1", "js2"} ->
         LET t == IF text = Undefined \/ text = <<>> THEN <<>> ELSE text
         IN IF Trim(t) = <<>> THEN PlaceholderPhrase(im) ELSE Trim(t)
    [] OTHER ->
         IF text = Undefined THEN <<"undefined">> ELSE text

\* a withRetry whose default allows one retry less
DefaultRetries_Two(im) == 2

\* withRetry's default parameters
DefaultRetries(im) == 3
DefaultDelay(im) == IF im = "js1" THEN 1500 * 1000 ELSE 1000 * 1000

\* `if (retries <= 0) throw error`
RetryExhausted(retries) == retries <= 0

\* the delay passed to the recursive call: delay * 2, or delay * 1.5 in the
\* first copy of gemini.js
NextDelay(im, delay) ==
  IF im = "js1" THEN (delay * 3) \div 2 ELSE delay * 2

\* what the voice service can answer: an audio payload or none, with or without
\* finishReason SAFETY, or a rejected request
Responses == {"audio", "empty", "safety_audio", "safety_empty", "rejected"}

\* does the wrapped operation throw on this response?
AttemptFails(im, resp) ==
  \/ resp = "rejected"
  \/ im = "js1" /\ resp \in {"safety_audio", "safety_empty"}
  \/ resp \in {"empty", "safety_empty"}

\* speechVars in the specifications that do not use them
SpeechIdle ==
  /\ sImpl = "none" /\ sText = <<>> /\ sPc = "idle" /\ sSafeText = <<>>
  /\ sRetries = 0 /\ sDelay = 0 /\ sCalls = 0 /\ sSubmitted = <<>>
  /\ sWaits = <<>> /\ sHist = <<>> /\ sResp = <<>>
  /\ sResult = 0 /\ sError = 0

\* entry of generateSpeechForText up to the first invocation of the wrapped
\* operation: safeText is computed and withRetry is entered with its defaults
\* ("old" has no withRetry: its retries and delay stay 0 and are never read)
SpeechSanitize ==
  /\ sPc = "start"
  /\ IF SanitizeThrows(sImpl, sText)
     THEN /\ sPc' = "thrown"
          /\ sError' = -1
          /\ UNCHANGED <<sSafeText, sRetries, sDelay>>
     ELSE /\ sPc' = "call"
          /\ sSafeText' = SafeText(sImpl, sText)
          /\ sRetries' = IF sImpl \in RetryImpls THEN DefaultRetries(sImpl) ELSE 0
          /\ sDelay' = IF sImpl \in RetryImpls THEN DefaultDelay(sImpl) ELSE 0
          /\ UNCHANGED sError
  /\ UNCHANGED <<sImpl, sText, sCalls, sSubmitted, sWaits, sHist, sResp,
                 sResult>>
  /\ UNCHANGED <<appVars, joinVars, recVars, libVars>>

\* `await fn()`: the request is sent with the prompt holding safeText
SpeechInvoke ==
  /\ sPc = "call"
  /\ sPc' = "inflight"
  /\ sCalls' = sCalls + 1
  /\ sSubmitted' = Append(sSubmitted, sSafeText)
  /\ UNCHANGED <<sImpl, sText, sSafeText, sRetries, sDelay, sWaits, sHist,
                 sResp, sResult, sError>>
  /\ UNCHANGED <<appVars, joinVars, recVars, libVars>>

\* the request settles with a response the wrapped operation accepts: the
\* decoded clip of this attempt is returned through every withRetry frame
SpeechAttemptOk ==
  /\ sPc = "inflight"
  /\ \E resp \in Responses :
       /\ ~AttemptFails(sImpl, resp)
       /\ sPc' = "returned"
       /\ sResult' = sCalls
       /\ sHist' = Append(sHist, "ok")
       /\ sResp' = Append(sResp, resp)
  /\ UNCHANGED <<sImpl, sText, sSafeText, sRetries, sDelay, sCalls,
                 sSubmitted, sWaits, sError>>
  /\ UNCHANGED <<appVars, joinVars, recVars, libVars>>

\* the request settles and the wrapped operation throws: without withRetry
\* ("old") the error is the caller's; with it, the catch clause either rethrows
\* or starts the backoff timer
SpeechAttemptFails ==
  /\ sPc = "inflight"
  /\ \E resp \in Responses :
       /\ AttemptFails(sImpl, resp)
       /\ sHist' = Append(sHist, "fail")
       /\ sResp' = Append(sResp, resp)
       /\ IF sImpl \notin RetryImpls \/ RetryExhausted(sRetries)
          THEN /\ sPc' = "thrown"
               /\ sError' = sCalls
               /\ UNCHANGED sWaits
          ELSE /\ sPc' = "wait"
               /\ sWaits' = Append(sWaits, sDelay)
               /\ UNCHANGED sError
  /\ UNCHANGED <<sImpl, sText, sSafeText, sRetries, sDelay, sCalls,
                 sSubmitted, sResult>>
  /\ UNCHANGED <<appVars, joinVars, recVars, libVars>>

\* the backoff timer fires: withRetry(fn, retries - 1, <next delay>)
SpeechBackoffElapsed ==
  /\ sPc = "wait"
  /\ sPc' = "call"
  /\ sRetries' = sRetries - 1
  /\ sDelay' = NextDelay(sImpl, sDelay)
  /\ UNCHANGED <<sImpl, sText, sSafeText, sCalls, sSubmitted, sWaits, sHist,
                 sResp, sResult, sError>>
  /\ UNCHANGED <<appVars, joinVars, recVars, libVars>>


(***************************************************************************)
(* The application                                                         *)
(*                                                                         *)
(* An asynchronous function (startAnalysis, handlePptxDirect, createVideo) *)
(* is an operation in a slot of ops; its pc is the await it is suspended   *)
(* at, and one action is the code between two awaits.  The literals        *)
(*   "（解説なし）" -> "(no notes)"   (pptxParser's notes placeholder)      *)
(* are transliterated as above.                                            *)
(***************************************************************************)
Files == 1..MaxFiles
Slots == 1..MaxOps

\* the kind of file f: what file.type / file.name say
FileType(f) == CASE f % 4 = 2 -> "pptx" [] f % 4 = 3 -> "other" [] OTHER -> "pdf"

\* pdf.numPages of file f
NumPages(f) == 1 + (f % 2)

\* `isPdf || isPptx` in the React handler, `file.type === 'application/pdf'`
\* in the script's
Accepted(im, f) ==
  IF im = "react" THEN FileType(f) \in {"pdf", "pptx"} ELSE FileType(f) = "pdf"

\* slide.audioBuffer before any synthesis has stored a clip
NoClip == ""

\* `audio` holds the audioBuffer fields of the slides, one per slide: a clip
\* is written as the text it was synthesized from
NoAnalysis ==
  [present |-> FALSE, file |-> 0, presentationTitle |-> "", summary |-> "",
   slides |-> <<>>, audio |-> <<>>]

\* presentationTitle of the analysis of file f (what the analysis service
\* names it, or the file name without '.pptx') and the two summaries
PresentationTitle(f) == "Presentation " \o ToString(f)
AiSummary == "Summary"
DirectSummary == "(made from the speaker notes)"

NoClips(slides) == [p \in 1..Len(slides) |-> NoClip]

\* an operation's slides and clips are the slide objects the call holds
\* (their notes and audioBuffer fields); shared is the set of positions whose
\* object is still the one the current analysis holds
NoOp == [kind |-> "none", pc |-> "free", file |-> 0, i |-> 0,
         slides |-> <<>>, clips |-> <<>>, shared |-> {},
         rec |-> "none", ctx |-> "none"]

\* the analysis is replaced: no running call shares a slide object with it
Unshare(os) == [o \in DOMAIN os |-> [os[o] EXCEPT !.shared = {}]]

NoPptNotes == "(no notes)"

\* parsePptxNotes(file).slides: the first slide has speaker notes, the others
\* have none and carry the parser's placeholder
PptSlides(f) ==
  [p \in 1..NumPages(f) |->
     [title |-> "Slide " \o ToString(p),
      content |-> <<"bullet">>,
      notes |-> IF p = 1 THEN "Own notes" ELSE NoPptNotes]]

\* React startAnalysis, PPTX branch: result.slides[idx] is read by position
PptxFinalSlides(ppt, ai) ==
  [p \in 1..Len(ppt) |->
     [pageIndex |-> p - 1,
      title |-> ppt[p].title,
      content |-> ppt[p].content,
      notes |-> IF ppt[p].notes # NoPptNotes THEN ppt[p].notes
                ELSE IF p <= Len(ai) THEN OrElse(ai[p].notes, PlaceholderNotes)
                ELSE PlaceholderNotes,
      imageUrl |-> NoImage]]

\* handlePptxDirect: the extracted slides as they are
PptxDirectSlides(ppt) ==
  [p \in 1..Len(ppt) |->
     [pageIndex |-> p - 1,
      title |-> ppt[p].title,
      content |-> ppt[p].content,
      notes |-> ppt[p].notes,
      imageUrl |-> NoImage]]

\* the analysis results the service gives for a document of n pages in Spec:
\* every page in order, or every page but the last
CompleteResult(n) ==
  [p \in 1..n |-> [pageIndex |-> p - 1, title |-> "Ta", notes |-> "Sa"]]
AppAiResults(n) == {CompleteResult(n), SubSeq(CompleteResult(n), 1, n - 1)}
AllAppAiResults == UNION {AppAiResults(NumPages(f)) : f \in Files}

\* the error overlay (React: rendered while status is 'error'; script: the
\* modal showError reveals) covers the page: only a reload is offered
Blocked == (impl = "react" /\ status = "error") \/ errorModal

FreeSlot(o) == o \in Slots /\ ops[o].kind = "none"

\* Math.floor((k / n) * 50)
HalfShare(k, n) == (k * 50) \div n

(***************************************************************************)
(* User events                                                             *)
(***************************************************************************)

\* handleFileUpload / the script's change listener, for an accepted file
SelectFile(f) ==
  /\ ~Blocked
  /\ Accepted(impl, f)
  /\ targetFile' = f
  /\ status' = "idle"
  /\ IF impl = "react"
     THEN /\ fileType' = FileType(f)
          /\ analysis' = NoAnalysis
          /\ videoUrl' = 0
          /\ progress' = 0
          /\ errorMsg' = ""
          /\ ops' = Unshare(ops)
     ELSE UNCHANGED <<fileType, analysis, videoUrl, progress, errorMsg, ops>>
  /\ UNCHANGED <<impl, encoderOk, errorModal>>
  /\ UNCHANGED <<joinVars, speechVars, recVars, libVars>>

\* the same handlers for a file they refuse: an alert, nothing else
SelectRefused(f) ==
  /\ ~Blocked
  /\ ~Accepted(impl, f)
  /\ UNCHANGED vars

\* startAnalysis up to its first await.  React shows the button only while
\* status is 'idle'; the script reveals it with the first accepted file and
\* never hides it again
ClickStartAnalysis(o) ==
  /\ ~Blocked
  /\ targetFile # 0
  /\ impl = "react" => status = "idle"
  /\ FreeSlot(o)
  /\ status' = "analyzing"
  /\ IF impl = "react"
     THEN /\ progress' = 10
          /\ errorMsg' = ""
          /\ ops' = [ops EXCEPT ![o] =
               [NoOp EXCEPT !.kind = "analysis",
                            !.pc = IF fileType = "pdf" THEN "render" ELSE "parse",
                            !.file = targetFile]]
     ELSE /\ UNCHANGED <<progress, errorMsg>>
          /\ ops' = [ops EXCEPT ![o] =
               [NoOp EXCEPT !.kind = "analysis", !.pc = "read",
                            !.file = targetFile]]
  /\ UNCHANGED <<impl, encoderOk, targetFile, fileType, analysis, errorModal, videoUrl>>
  /\ UNCHANGED <<joinVars, speechVars, recVars, libVars>>

\* handlePptxDirect up to its first await (React, PPTX files)
ClickPptxDirect(o) ==
  /\ ~Blocked
  /\ impl = "react"
  /\ targetFile # 0 /\ fileType = "pptx" /\ status = "idle"
  /\ FreeSlot(o)
  /\ status' = "analyzing"
  /\ progress' = 30
  /\ errorMsg' = ""
  /\ ops' = [ops EXCEPT ![o] =
       [NoOp EXCEPT !.kind = "direct", !.pc = "parse", !.file = targetFile]]
  /\ UNCHANGED <<impl, encoderOk, targetFile, fileType, analysis, errorModal, videoUrl>>
  /\ UNCHANGED <<joinVars, speechVars, recVars, libVars>>

(***************************************************************************)
(* startAnalysis and handlePptxDirect after their awaits                   *)
(***************************************************************************)

\* the catch clause of the React functions / showError of the script
\* (status, progress, errorMsg and errorModal are set here)
ReportFailure(msg) ==
  IF impl = "react"
  THEN /\ status' = "error"
       /\ progress' = 0
       /\ errorMsg' = msg
       /\ UNCHANGED errorModal
  ELSE /\ errorMsg' = msg
       /\ errorModal' = TRUE
       /\ UNCHANGED <<status, progress>>

\* script: the FileReader has delivered the file; renderPdfToImages starts
\* on page 1 with setProgress(Math.floor((1 / numPages) * 30), ...)
AnalysisReadDone(o) ==
  /\ o \in Slots /\ ops[o].kind = "analysis" /\ ops[o].pc = "read"
  /\ progress' = (1 * 30) \div NumPages(ops[o].file)
  /\ ops' = [ops EXCEPT ![o].pc = "render", ![o].i = 1]
  /\ UNCHANGED <<impl, encoderOk, targetFile, fileType, analysis, status, errorMsg,
                 errorModal, videoUrl>>
  /\ UNCHANGED <<joinVars, speechVars, recVars, libVars>>

\* renderPdfToImages: a page is rendered.  React only changes loadingMsg, so
\* its loop is one step; the script updates the progress page by page and ends
\* with setProgress(40, ...)
AnalysisRenderDone(o) ==
  /\ o \in Slots /\ ops[o].kind = "analysis" /\ ops[o].pc = "render"
  /\ IF impl = "react"
     THEN /\ ops' = [ops EXCEPT ![o].pc = "analyze"]
          /\ UNCHANGED progress
     ELSE IF ops[o].i < NumPages(ops[o].file)
     THEN /\ ops' = [ops EXCEPT ![o].i = @ + 1]
          /\ progress' = ((ops[o].i + 1) * 30) \div NumPages(ops[o].file)
     ELSE /\ ops' = [ops EXCEPT ![o].pc = "analyze", ![o].i = 0]
          /\ progress' = 40
  /\ UNCHANGED <<impl, encoderOk, targetFile, fileType, analysis, status, errorMsg,
                 errorModal, videoUrl>>
  /\ UNCHANGED <<joinVars, speechVars, recVars, libVars>>

\* parsePptxNotes has resolved: startAnalysis goes on to the analysis
\* request, handlePptxDirect installs the extracted slides
AnalysisParseDone(o) ==
  /\ o \in Slots /\ ops[o].kind \in {"analysis", "direct"} /\ ops[o].pc = "parse"
  /\ IF ops[o].kind = "analysis"
     THEN /\ ops' = [ops EXCEPT ![o].pc = "analyze"]
          /\ UNCHANGED <<analysis, status, progress, errorMsg>>
     ELSE /\ LET slides == PptxDirectSlides(PptSlides(ops[o].file))
             IN analysis' = [present |-> TRUE, file |-> ops[o].file,
                             presentationTitle |-> PresentationTitle(ops[o].file),
                             summary |-> DirectSummary,
                             slides |-> slides, audio |-> NoClips(slides)]
          /\ status' = "reviewing"
          /\ progress' = 100
          /\ errorMsg' = ""
          /\ ops' = Unshare([ops EXCEPT ![o] = NoOp])
  /\ UNCHANGED <<impl, encoderOk, targetFile, fileType, errorModal, videoUrl>>
  /\ UNCHANGED <<joinVars, speechVars, recVars, libVars>>

\* analyzePdfForPpt has resolved with the entries raw: the slides are built
\* and the analysis is installed for review
AnalysisDone(o, raw) ==
  /\ o \in Slots /\ ops[o].kind = "analysis" /\ ops[o].pc = "analyze"
  /\ raw \in AppAiResults(NumPages(ops[o].file))
  /\ LET slides == IF FileType(ops[o].file) = "pptx"
                   THEN PptxFinalSlides(PptSlides(ops[o].file),
                                        AnalyzedSlides(impl, raw))
                   ELSE FinalSlides(impl, raw, NumPages(ops[o].file))
     IN analysis' = [present |-> TRUE, file |-> ops[o].file,
                     presentationTitle |-> PresentationTitle(ops[o].file),
                     summary |-> AiSummary,
                     slides |-> slides, audio |-> NoClips(slides)]
  /\ status' = "reviewing"
  /\ IF impl = "react"
     THEN progress' = 100 /\ errorMsg' = ""
     ELSE UNCHANGED <<progress, errorMsg>>
  /\ ops' = Unshare([ops EXCEPT ![o] = NoOp])
  /\ UNCHANGED <<impl, encoderOk, targetFile, fileType, errorModal, videoUrl>>
  /\ UNCHANGED <<joinVars, speechVars, recVars, libVars>>

\* an await of startAnalysis / handlePptxDirect has rejected (the document
\* cannot be rendered or parsed, the analysis request fails or its answer is
\* empty)
AnalysisFails(o) ==
  /\ o \in Slots /\ ops[o].kind \in {"analysis", "direct"}
  /\ ops[o].pc \in {"render", "parse", "analyze"}
  /\ ReportFailure("analysis failed")
  /\ ops' = [ops EXCEPT ![o] = NoOp]
  /\ UNCHANGED <<impl, encoderOk, targetFile, fileType, analysis, videoUrl>>
  /\ UNCHANGED <<joinVars, speechVars, recVars, libVars>>

(***************************************************************************)
(* createVideo                                                             *)
(***************************************************************************)

\* the `finally` clause: React closes the audio context from a 1 s timer,
\* the script closes it at once and the function is over
\* a call that will not touch its slides again keeps none of them
Dropped(op) ==
  [op EXCEPT !.i = 0, !.slides = <<>>, !.clips = <<>>, !.shared = {}]

AfterFinally(op) ==
  IF impl = "react" THEN [Dropped(op) EXCEPT !.pc = "closing"] ELSE NoOp

\* the code between the end of the synthesis loop and `recorder.start()`
\* followed by the stabilisation timer; encoderOk tells whether the browser
\* accepts the container/codec asked for (React: the MediaRecorder constructor
\* throws otherwise; script: getSupportedMimeType() returns '')
EnterRecording(os, o, op) ==
  IF encoderOk
  THEN /\ status' = "video_recording"
       /\ progress' = 50
       /\ errorMsg' = IF impl = "react" THEN "" ELSE errorMsg
       /\ UNCHANGED errorModal
       /\ ops' = [os EXCEPT ![o] =
            [op EXCEPT !.pc = "stabilize", !.i = 0, !.rec = "recording"]]
  ELSE /\ IF impl = "react"
          THEN /\ status' = "error"
               /\ progress' = 0
               /\ errorMsg' = "recording not supported"
               /\ UNCHANGED errorModal
          ELSE /\ status' = "video_recording"
               /\ progress' = 50
               /\ errorMsg' = "recording not supported"
               /\ errorModal' = TRUE
       /\ ops' = [os EXCEPT ![o] = AfterFinally(op)]

\* createVideo up to its first await.  React renders the button with the
\* review panel (an analysis is present, no spinner) inside a step card that
\* takes clicks while status is 'reviewing' or 'completed'; the script shows
\* the panel only while status is 'reviewing'
ClickCreateVideo(o) ==
  /\ ~Blocked
  /\ analysis.present
  /\ IF impl = "react" THEN status \in {"reviewing", "completed"}
     ELSE status = "reviewing"
  /\ FreeSlot(o)
  /\ LET op == [NoOp EXCEPT !.kind = "video", !.pc = "synth",
                            !.file = analysis.file,
                            !.slides = analysis.slides,
                            !.clips = analysis.audio,
                            !.shared = 1..Len(analysis.slides),
                            !.ctx = "running"]
     IN IF Len(analysis.slides) > 0
        THEN /\ status' = "audio_generating"
             /\ progress' = 0
             /\ errorMsg' = IF impl = "react" THEN "" ELSE errorMsg
             /\ UNCHANGED errorModal
             /\ ops' = [ops EXCEPT ![o] = op]
        ELSE EnterRecording(ops, o, op)
  /\ UNCHANGED <<impl, encoderOk, targetFile, fileType, analysis, videoUrl>>
  /\ UNCHANGED <<joinVars, speechVars, recVars, libVars>>

\* a synthesis loop that keeps the clip a slide already carries
SynthSource_Cached(slide, cached) ==
  IF cached # NoClip THEN cached ELSE slide.notes

\* the text generateSpeechForText is called with for a slide (whatever clip
\* the slide already carries)
SynthSource(slide, cached) == slide.notes

\* `slides[k].audioBuffer = clip` as every holder of that slide object sees it
StoreClip(os, o, k, clip) ==
  [q \in DOMAIN os |->
     IF q = o \/ (k \in os[o].shared /\ k \in os[q].shared)
     THEN [os[q] EXCEPT !.clips[k] = clip]
     ELSE os[q]]

\* generateSpeechForText has resolved for slide i: its clip is stored in the
\* slide object; React then updates the progress (keeping the status it
\* finds), the script announces the next slide; after the last slide
\* recording is set up
VideoSynthDone(o) ==
  /\ o \in Slots /\ ops[o].kind = "video" /\ ops[o].pc = "synth"
  /\ LET k == ops[o].i + 1
         clip == SynthSource(ops[o].slides[k], ops[o].clips[k])
         stored == StoreClip(ops, o, k, clip)
         n == Len(ops[o].slides)
         next == [stored[o] EXCEPT !.i = k]
     IN /\ analysis' = IF k \in ops[o].shared
                       THEN [analysis EXCEPT !.audio[k] = clip]
                       ELSE analysis
        /\ IF k < n
           THEN /\ progress' = HalfShare(k, n)
                /\ ops' = [stored EXCEPT ![o] = next]
                /\ UNCHANGED <<status, errorMsg, errorModal>>
           ELSE EnterRecording(stored, o, next)
  /\ UNCHANGED <<impl, encoderOk, targetFile, fileType, videoUrl>>
  /\ UNCHANGED <<joinVars, speechVars, recVars, libVars>>

\* generateSpeechForText has rejected (its retries are used up): the error
\* is reported and the run ends through `finally`
VideoSynthFails(o) ==
  /\ o \in Slots /\ ops[o].kind = "video" /\ ops[o].pc = "synth"
  /\ ReportFailure("speech synthesis failed")
  /\ ops' = [ops EXCEPT ![o] = AfterFinally(ops[o])]
  /\ UNCHANGED <<impl, encoderOk, targetFile, fileType, analysis, videoUrl>>
  /\ UNCHANGED <<joinVars, speechVars, recVars, libVars>>

\* the slide whose frame is drawn next, or recorder.stop() after the last
StartSlide(o, op) ==
  IF op.i < Len(op.slides)
  THEN /\ ops' = [ops EXCEPT ![o] = [op EXCEPT !.pc = "draw"]]
       /\ progress' = IF impl = "react" THEN progress
                      ELSE 50 + HalfShare(op.i, Len(op.slides))
  ELSE /\ ops' = [ops EXCEPT ![o] =
            [op EXCEPT !.pc = "stopping", !.rec = "inactive"]]
       /\ UNCHANGED progress

\* the stabilisation timer (800 ms / 200 ms) has fired
VideoStabilized(o) ==
  /\ o \in Slots /\ ops[o].kind = "video" /\ ops[o].pc = "stabilize"
  /\ StartSlide(o, ops[o])
  /\ UNCHANGED <<impl, encoderOk, targetFile, fileType, analysis, status, errorMsg,
                 errorModal, videoUrl>>
  /\ UNCHANGED <<joinVars, speechVars, recVars, libVars>>

\* drawFrame has resolved: the frame is on the canvas, the slide's audio
\* source is started and the hold begins
VideoDrawDone(o) ==
  /\ o \in Slots /\ ops[o].kind = "video" /\ ops[o].pc = "draw"
  /\ ops' = [ops EXCEPT ![o].pc = "hold"]
  /\ UNCHANGED <<impl, encoderOk, targetFile, fileType, analysis, status, progress,
                 errorMsg, errorModal, videoUrl>>
  /\ UNCHANGED <<joinVars, speechVars, recVars, libVars>>

\* the slide's image fails to load.  React's drawFrame awaits a promise only
\* `onload` resolves, so createVideo never resumes; the script's rejects and
\* the run ends through catch and finally
VideoImageFails(o) ==
  /\ o \in Slots /\ ops[o].kind = "video" /\ ops[o].pc = "draw"
  /\ ops[o].slides[ops[o].i + 1].imageUrl # NoImage
  /\ IF impl = "react"
     THEN /\ ops' = [ops EXCEPT ![o] = [Dropped(@) EXCEPT !.pc = "hung"]]
          /\ UNCHANGED <<status, progress, errorMsg, errorModal>>
     ELSE /\ ReportFailure("video generation failed")
          /\ ops' = [ops EXCEPT ![o] = AfterFinally(ops[o])]
  /\ UNCHANGED <<impl, encoderOk, targetFile, fileType, analysis, videoUrl>>
  /\ UNCHANGED <<joinVars, speechVars, recVars, libVars>>

\* the hold of slide i (clip duration + 1 s) has elapsed: React updates the
\* progress (keeping the status it finds); then the next slide, or stop
VideoHoldElapsed(o) ==
  /\ o \in Slots /\ ops[o].kind = "video" /\ ops[o].pc = "hold"
  /\ LET op == ops[o]
         n == Len(op.slides)
         next == [op EXCEPT !.i = @ + 1]
     IN IF impl = "react"
        THEN /\ progress' = 50 + HalfShare(op.i + 1, n)
             /\ ops' = [ops EXCEPT ![o] =
                  IF next.i < n THEN [next EXCEPT !.pc = "draw"]
                  ELSE [next EXCEPT !.pc = "stopping", !.rec = "inactive"]]
        ELSE StartSlide(o, next)
  /\ UNCHANGED <<impl, encoderOk, targetFile, fileType, analysis, status, errorMsg,
                 errorModal, videoUrl>>
  /\ UNCHANGED <<joinVars, speechVars, recVars, libVars>>

\* the recorder's stop event: the blob is built and handed to the video
\* element, the run is completed and ends through `finally`
VideoRecorderStopped(o) ==
  /\ o \in Slots /\ ops[o].kind = "video" /\ ops[o].pc = "stopping"
  /\ videoUrl' = ops[o].file
  /\ status' = "completed"
  /\ IF impl = "react"
     THEN progress' = 100 /\ errorMsg' = ""
     ELSE UNCHANGED <<progress, errorMsg>>
  /\ ops' = [ops EXCEPT ![o] = AfterFinally(ops[o])]
  /\ UNCHANGED <<impl, encoderOk, targetFile, fileType, analysis, errorModal>>
  /\ UNCHANGED <<joinVars, speechVars, recVars, libVars>>

\* React: the timer of `finally` fires and closes the audio context
VideoContextClosed(o) ==
  /\ o \in Slots /\ ops[o].kind = "video" /\ ops[o].pc = "closing"
  /\ ops' = [ops EXCEPT ![o] = NoOp]
  /\ UNCHANGED <<impl, encoderOk, targetFile, fileType, analysis, status, progress,
                 errorMsg, errorModal, videoUrl>>
  /\ UNCHANGED <<joinVars, speechVars, recVars, libVars>>

\* the review panel takes input: React renders it with an analysis and no
\* spinner, inside a step card that takes input while status is 'reviewing'
\* or 'completed'; the script shows it only while status is 'reviewing'
ReviewShown ==
  /\ ~Blocked
  /\ analysis.present
  /\ IF impl = "react" THEN status \in {"reviewing", "completed"}
     ELSE status = "reviewing"

\* what the user types into a notes textarea
EditedNotes == {"Edited"}

\* an edit that replaces the notes of every slide
EditNotes_All(slides, idx, newNote) ==
  [p \in 1..Len(slides) |-> [slides[p] EXCEPT !.notes = newNote]]

\* `updatedSlides[index] = { ...updatedSlides[index], notes: newNote }` in a
\* copy of the array / `slides[idx].notes = e.target.value`
EditNotes(slides, idx, newNote) ==
  [p \in 1..Len(slides) |->
     IF p = idx THEN [slides[p] EXCEPT !.notes = newNote] ELSE slides[p]]

\* handleNoteChange(idx, newNote) builds a new slides array with a new slide
\* object at idx (audioBuffer copied by the spread); the script's input
\* listener assigns slides[idx].notes in place, in the object a running
\* createVideo may hold
NoteChange(idx, newNote) ==
  /\ ReviewShown
  /\ idx \in 1..Len(analysis.slides)
  /\ analysis' = [analysis EXCEPT
                    !.slides = EditNotes(analysis.slides, idx, newNote)]
  /\ ops' = [o \in Slots |->
       IF idx \notin ops[o].shared THEN ops[o]
       ELSE IF impl = "react" THEN [ops[o] EXCEPT !.shared = @ \ {idx}]
       ELSE [ops[o] EXCEPT !.slides = EditNotes(@, idx, newNote)]]
  /\ UNCHANGED <<impl, encoderOk, targetFile, fileType, status, progress,
                 errorMsg, errorModal, videoUrl>>
  /\ UNCHANGED <<joinVars, speechVars, recVars, libVars>>

\* appVars in the specifications that do not use them
AppIdle ==
  /\ impl = "none" /\ encoderOk = FALSE /\ targetFile = 0 /\ fileType = "none"
  /\ analysis = NoAnalysis /\ status = "idle" /\ progress = 0
  /\ errorMsg = "" /\ errorModal = FALSE /\ videoUrl = 0
  /\ ops = [o \in Slots |-> NoOp]

(***************************************************************************)
(* createVideo: one run, with its recorder, chunk list, promise and audio  *)
(* context                                                                 *)
(*                                                                         *)
(* Times are in milliseconds.  A slide is [image, duration]: whether it    *)
(* has an imageUrl (the slides of a PDF all have one, those of a PPTX have *)
(* none) and audioBuffer.duration * 1000 of its clip.  rLog is the         *)
(* timeline of the run: what was done to the canvas, the audio graph and   *)
(* the recorder, in order.  The browser is the environment: it reports     *)
(* which container/codec types MediaRecorder supports, delivers            *)
(* dataavailable events, may fail to load an image and may hit an encoder  *)
(* error while the recorder records.                                       *)
(***************************************************************************)

\* the preference-ordered list of getSupportedMimeType
MimeTypes ==
  <<"video/webm;codecs=vp9,opus", "video/webm;codecs=vp8,opus",
    "video/webm", "video/mp4">>

RECURSIVE FirstSupportedFrom(_, _)
FirstSupportedFrom(types, supported) ==
  IF types = <<>> THEN ""
  ELSE IF Head(types) \in supported THEN Head(types)
  ELSE FirstSupportedFrom(Tail(types), supported)

\* getSupportedMimeType(): the first type MediaRecorder.isTypeSupported
\* accepts, '' when there is none
GetSupportedMimeType(supported) == FirstSupportedFrom(MimeTypes, supported)

\* the type createVideo asks the MediaRecorder constructor for: React names
\* one type, the script negotiates
RequestedMimeType(im, supported) ==
  IF im = "react" THEN MimeTypes[1] ELSE GetSupportedMimeType(supported)

\* `(duration * 1000) + 1000`: the margin after each clip
FixedMargin == 1000

\* a hold that forgets the margin
HoldTime_NoMargin(duration) == duration

\* slideEndTime - slideStartTime (React) / totalWait (script)
HoldTime(duration) == duration + FixedMargin

Durations == {1000, 2500}
ChunkSizes == {0, 1}

RecSlides ==
  UNION {[1..n -> [image : {img}, duration : Durations]] :
           n \in 1..MaxSlides, img \in BOOLEAN}

Event(e, k, t) == [ev |-> e, i |-> k, d |-> t]

\* recorder.ondataavailable: React pushes every e.data, the script only a
\* non-empty one
OnDataAvailable(im, chunks, chunk) ==
  IF im = "react" \/ chunk.size > 0 THEN Append(chunks, chunk) ELSE chunks

\* the chunk the next dataavailable event carries
NextChunk(delivered, size) == [n |-> Len(delivered) + 1, size |-> size]

\* recVars in the specifications that do not use them
RecIdle ==
  /\ rImpl = "none" /\ rSupported = {} /\ rSlides = <<>> /\ rPc = "idle"
  /\ rI = 0 /\ rStatus = "idle" /\ rError = "" /\ rModal = FALSE
  /\ rRec = "none" /\ rMime = "" /\ rPromise = "none" /\ rErrored = FALSE
  /\ rDelivered = <<>> /\ rChunks = <<>> /\ rBlob = <<>> /\ rBlobs = 0
  /\ rUrl = FALSE /\ rCtx = "none" /\ rCloses = 0 /\ rPlaying = FALSE
  /\ rLog = <<>> /\ rSynth = <<>>

\* catch and finally of createVideo, entered while the status is st.
\* catch: React sets status 'error', the script calls showError, which leaves
\* state.status alone.  finally: React arms the 1 s timer that closes the
\* audio context, the script closes the context at once when it is not
\* closed yet
RecFailFrom(st, msg) ==
  /\ rError' = msg
  /\ IF rImpl = "react"
     THEN rStatus' = "error" /\ UNCHANGED rModal
     ELSE rModal' = TRUE /\ rStatus' = st
  /\ IF rImpl = "react"
     THEN rPc' = "closing" /\ UNCHANGED <<rCtx, rCloses>>
     ELSE /\ rPc' = "done"
          /\ rCtx' = "closed"
          /\ rCloses' = IF rCtx = "closed" THEN rCloses ELSE rCloses + 1

RecFail(msg) == RecFailFrom(rStatus, msg)

\* lines 243-265 (React) / 701-732 (script): status video_recording, the
\* recorder is constructed with the requested type, its handlers installed,
\* recorder.start(), then the stabilisation timer.  When the requested type
\* is not supported the React constructor throws NotSupportedError and the
\* script throws its own error before constructing anything
RecSetup ==
  LET mime == RequestedMimeType(rImpl, rSupported)
  IN IF mime # "" /\ mime \in rSupported
     THEN /\ rStatus' = "video_recording"
          /\ rMime' = mime
          /\ rRec' = "recording"
          /\ rPromise' = "pending"
          /\ rLog' = Append(rLog, Event("start", 0, 0))
          /\ rPc' = "stabilize"
          /\ UNCHANGED <<rError, rModal, rCtx, rCloses>>
     ELSE /\ RecFailFrom("video_recording", "recording not supported")
          /\ UNCHANGED <<rMime, rRec, rPromise, rLog>>

\* generateSpeechForText(slides[i].notes, audioCtx) is called: the request
\* for slide i is in flight, retries and backoff waits included, until the
\* call settles
SynthStart(i) == Event("synth_start", i, 0)

\* a loop that starts the next request before it takes the clip of this one
SynthReturned_Eager(i, n) ==
  (IF i + 1 < n THEN <<SynthStart(i + 1)>> ELSE <<>>)
    \o <<Event("synth_done", i, 0)>>

\* `slides[i].audioBuffer = await ...` has its clip; the loop goes on to
\* i + 1 and calls generateSpeechForText again while i + 1 < n
SynthReturned(i, n) ==
  <<Event("synth_done", i, 0)>>
    \o (IF i + 1 < n THEN <<SynthStart(i + 1)>> ELSE <<>>)

\* generateSpeechForText has resolved for slide rI; after the last slide the
\* recording is set up
RecSynthDone ==
  /\ rPc = "synth"
  /\ IF rI + 1 < Len(rSlides)
     THEN /\ rI' = rI + 1
          /\ UNCHANGED <<rPc, recUi, recRecorder, rCtx, rCloses, rLog>>
     ELSE /\ rI' = 0
          /\ RecSetup
          /\ UNCHANGED rErrored
  /\ rSynth' = rSynth \o SynthReturned(rI, Len(rSlides))
  /\ UNCHANGED <<recEnv, recData, rPlaying>>
  /\ UNCHANGED <<appVars, joinVars, speechVars, libVars>>

\* generateSpeechForText has rejected
RecSynthFails ==
  /\ rPc = "synth"
  /\ RecFail("speech synthesis failed")
  /\ rSynth' = Append(rSynth, Event("synth_failed", rI, 0))
  /\ UNCHANGED <<recEnv, rI, recRecorder, recData, rPlaying, rLog>>
  /\ UNCHANGED <<appVars, joinVars, speechVars, libVars>>

\* the stabilisation timer (800 ms / 200 ms) has fired: the slide loop starts
RecStabilized ==
  /\ rPc = "stabilize"
  /\ rPc' = "draw"
  /\ rLog' = Append(rLog, Event("stabilized", 0, 0))
  /\ UNCHANGED <<recEnv, rI, recUi, recRecorder, recData, recAudio>>
  /\ UNCHANGED <<appVars, joinVars, speechVars, libVars>>
  /\ UNCHANGED rSynth

\* drawFrame has resolved with the frame of slide rI on the canvas; the
\* slide's buffer source is connected and started, and the hold begins
RecDrawDone ==
  /\ rPc = "draw"
  /\ rPc' = "hold"
  /\ rPlaying' = TRUE
  /\ rLog' = rLog \o <<Event("draw", rI, 0), Event("play", rI, 0)>>
  /\ UNCHANGED <<recEnv, rI, recUi, recRecorder, recData, rCtx, rCloses>>
  /\ UNCHANGED <<appVars, joinVars, speechVars, libVars>>
  /\ UNCHANGED rSynth

\* the image of slide rI fails to load.  React's drawFrame awaits a promise
\* that only `onload` resolves: createVideo never resumes.  The script's
\* promise rejects: catch and finally run
RecImageFails ==
  /\ rPc = "draw"
  /\ rSlides[rI + 1].image
  /\ IF rImpl = "react"
     THEN /\ rPc' = "hung"
          /\ UNCHANGED <<recUi, rCtx, rCloses>>
     ELSE RecFail("video generation failed")
  /\ UNCHANGED <<recEnv, rI, recRecorder, recData, rPlaying, rLog>>
  /\ UNCHANGED <<appVars, joinVars, speechVars, libVars>>
  /\ UNCHANGED rSynth

\* after `await recordingPromise` has yielded the blob: the URL is handed to
\* the video element, status completed, then finally
RecComplete ==
  /\ rUrl' = TRUE
  /\ rStatus' = "completed"
  /\ IF rImpl = "react"
     THEN rPc' = "closing" /\ UNCHANGED <<rCtx, rCloses>>
     ELSE /\ rPc' = "done"
          /\ rCtx' = "closed"
          /\ rCloses' = IF rCtx = "closed" THEN rCloses ELSE rCloses + 1
  /\ UNCHANGED <<rError, rModal>>

\* the hold of slide rI has elapsed (the clip, started at the beginning of the
\* hold, has ended).  Then the next slide, or recorder.stop() after the last
\* one.  stop() on a recorder an encoder error has already made inactive
\* throws InvalidStateError in some browsers and does nothing in others
\* (stopThrows); where it does nothing the await of the promise follows
RecHoldElapsed(stopThrows) ==
  /\ rPc = "hold"
  /\ rPlaying' = FALSE
  /\ LET held == Append(rLog,
                   Event("held", rI, HoldTime(rSlides[rI + 1].duration)))
     IN IF rI + 1 < Len(rSlides)
        THEN /\ rI' = rI + 1
             /\ rPc' = "draw"
             /\ rLog' = held
             /\ UNCHANGED <<recUi, rRec, rUrl, rCtx, rCloses>>
        ELSE /\ UNCHANGED rI
             /\ IF rRec = "recording"
                THEN /\ rRec' = "inactive"
                     /\ rPc' = "flushing"
                     /\ rLog' = Append(held, Event("stop", 0, 0))
                     /\ UNCHANGED <<recUi, rUrl, rCtx, rCloses>>
                ELSE /\ rLog' = held
                     /\ UNCHANGED rRec
                     /\ IF stopThrows
                        THEN RecFail("recorder is inactive") /\ UNCHANGED rUrl
                        ELSE IF rPromise = "resolved"
                        THEN RecComplete
                        ELSE RecFail("recording failed") /\ UNCHANGED rUrl
  /\ UNCHANGED <<recEnv, rMime, rPromise, rErrored, rDelivered, rChunks,
                 rBlob, rBlobs>>
  /\ UNCHANGED <<appVars, joinVars, speechVars, libVars>>
  /\ UNCHANGED rSynth

\* a dataavailable event while the recorder records
RecDataAvailable(size) ==
  /\ rRec = "recording"
  /\ Len(rDelivered) < MaxChunks
  /\ LET chunk == NextChunk(rDelivered, size)
     IN /\ rDelivered' = Append(rDelivered, chunk)
        /\ rChunks' = OnDataAvailable(rImpl, rChunks, chunk)
  /\ UNCHANGED <<recEnv, rPc, rI, recUi, recRecorder, rBlob, rBlobs, rUrl,
                 recAudio, rLog>>
  /\ UNCHANGED <<appVars, joinVars, speechVars, libVars>>
  /\ UNCHANGED rSynth

\* after recorder.stop(): the browser delivers the last chunk and fires
\* `stop`; onstop builds the blob from the chunk list and resolves the
\* promise, and createVideo resumes
RecRecorderStopped(size) ==
  /\ rPc = "flushing"
  /\ LET chunk == NextChunk(rDelivered, size)
         chunks == OnDataAvailable(rImpl, rChunks, chunk)
     IN /\ rDelivered' = Append(rDelivered, chunk)
        /\ rChunks' = chunks
        /\ rBlob' = chunks
        /\ rBlobs' = rBlobs + 1
  /\ rPromise' = "resolved"
  /\ RecComplete
  /\ UNCHANGED <<recEnv, rI, rRec, rMime, rErrored, rPlaying, rLog>>
  /\ UNCHANGED <<appVars, joinVars, speechVars, libVars>>
  /\ UNCHANGED rSynth

\* the encoder fails while the recorder records: the browser makes the
\* recorder inactive and fires `error`, `dataavailable` and `stop`.  The
\* script's onerror rejects the promise; React installs no onerror.  onstop
\* then builds a blob and calls resolve, which settles the promise only if
\* it is still pending
RecEncoderError(size) ==
  /\ rRec = "recording"
  /\ rPc \in {"stabilize", "draw", "hold", "hung"}
  /\ rRec' = "inactive"
  /\ rErrored' = TRUE
  /\ rLog' = Append(rLog, Event("encoder_error", 0, 0))
  /\ LET chunk == NextChunk(rDelivered, size)
         chunks == OnDataAvailable(rImpl, rChunks, chunk)
     IN /\ rDelivered' = Append(rDelivered, chunk)
        /\ rChunks' = chunks
        /\ rBlob' = chunks
        /\ rBlobs' = rBlobs + 1
  /\ rPromise' = IF rImpl = "script" THEN "rejected" ELSE "resolved"
  /\ UNCHANGED <<recEnv, rPc, rI, recUi, rMime, rUrl, recAudio>>
  /\ UNCHANGED <<appVars, joinVars, speechVars, libVars>>
  /\ UNCHANGED rSynth

\* React: the timer armed in `finally` fires: audioCtx.close()
RecContextClosed ==
  /\ rPc = "closing"
  /\ rPc' = "done"
  /\ rCtx' = "closed"
  /\ rCloses' = rCloses + 1
  /\ UNCHANGED <<recEnv, rI, recUi, recRecorder, recData, rPlaying, rLog>>
  /\ UNCHANGED <<appVars, joinVars, speechVars, libVars>>
  /\ UNCHANGED rSynth

(***************************************************************************)
(* parsePptxNotes: the slide-archive extractor                             *)
(*                                                                         *)
(* An archive is [files, rel]: files lists the slide numbers k of its      *)
(* entries ppt/slides/slide<k>.xml in the order Object.keys(zip.files)     *)
(* gives them, rel[k] is the number j of the entry                         *)
(* ppt/notesSlides/notesSlide<j>.xml that the notesSlide relationship of   *)
(* ppt/slides/_rels/slide<k>.xml.rels names (0: the slide has no notes).   *)
(* The text runs of slide<k>.xml are "Title k", "Body k"; the text of      *)
(* notesSlide<j>.xml is "Notes j".  The positional field is written index  *)
(* (pptxParser.js: pageIndex, part_002: index).                            *)
(***************************************************************************)
\* the notes placeholder of the two parsePptxNotes copies:
\*   pptxParser.js  "（スピーカーノートが設定されていません）"
\*                  -> "(speaker notes are not set)"
\*   unnamed/part_002  "（解説なし）" -> "(no notes)"
PptxParsers == {"pptxParser", "part_002"}
NoSpeakerNotes == "(speaker notes are not set)"
NotesPlaceholder(parser) ==
  IF parser = "pptxParser" THEN NoSpeakerNotes ELSE NoPptNotes

\* pptData.slides for a presentation whose slides carry the speaker notes
\* own ("": none): `notes: notes || <placeholder>`
ParsedPptx(parser, own) ==
  [p \in 1..Len(own) |->
     [title |-> "Slide " \o ToString(p),
      content |-> <<>>,
      notes |-> OrElse(own[p], NotesPlaceholder(parser))]]

OwnNotes == {"", "Own notes"}

SlideNumbers == {1, 2, 10}
NotesNumbers == {1, 2}

\* the number lists without repetition
Listings ==
  {s \in SeqsUpTo(SlideNumbers, Cardinality(SlideNumbers)) :
     \A a, b \in 1..Len(s) : a # b => s[a] # s[b]}

\* no two slides name the same notes entry
Relations(S) ==
  {r \in [S -> {0} \cup NotesNumbers] :
     \A a, b \in S : (a # b /\ r[a] # 0) => r[a] # r[b]}

Archives ==
  UNION {[files : {s}, rel : Relations(Range(s))] : s \in Listings}

SlideTexts(k) == <<"Title " \o ToString(k), "Body " \o ToString(k)>>
NotesText(j) == "Notes " \o ToString(j)

\* slideFiles.sort((a, b) => aNum - bNum)
InsertByNumber(s, k) ==
  LET n == Cardinality({j \in 1..Len(s) : s[j] <= k})
  IN SubSeq(s, 1, n) \o <<k>> \o SubSeq(s, n + 1, Len(s))

RECURSIVE SortByNumber(_)
SortByNumber(s) ==
  IF s = <<>> THEN <<>>
  ELSE InsertByNumber(SortByNumber(SubSeq(s, 1, Len(s) - 1)), s[Len(s)])

\* title and content from the text runs: texts[0] and texts.slice(1, ...)
SlideTitle(texts, fallback) == IF Len(texts) > 0 THEN texts[1] ELSE fallback
\* `texts.slice(1, 15)` (pptxParser.js) / `texts.slice(1, 6)` (part_002)
ContentLimit(parser) == IF parser = "pptxParser" THEN 14 ELSE 5
SlideContent(parser, texts) ==
  IF Len(texts) > 0
  THEN SubSeq(texts, 2, IF Len(texts) < 1 + ContentLimit(parser)
                        THEN Len(texts) ELSE 1 + ContentLimit(parser))
  ELSE <<>>

\* pptxParser.js: `for (const slidePath of slideFiles)`: the entry of slide
\* slideNum, the notes entry its relationship names
ParseByRelationship(archive) ==
  LET slideFiles == SortByNumber(archive.files)
  IN [p \in 1..Len(slideFiles) |->
        LET slideNum == slideFiles[p]
            noteRel == archive.rel[slideNum]
        IN [title |-> SlideTitle(SlideTexts(slideNum),
                                 "Slide " \o ToString(slideNum)),
            content |-> SlideContent("pptxParser", SlideTexts(slideNum)),
            notes |-> IF noteRel # 0 THEN NotesText(noteRel)
                      ELSE NotesPlaceholder("pptxParser"),
            index |-> p - 1]]

\* part_002: `for (let i = 1; i <= slideFiles.length; i++)`: the entries
\* slide<i>.xml and notesSlide<i>.xml, where the archive has them
ParseByCounter(archive) ==
  LET present == Range(archive.files)
      notesPresent == {archive.rel[k] : k \in present} \ {0}
  IN [i \in 1..Len(archive.files) |->
        LET texts == IF i \in present THEN SlideTexts(i) ELSE <<>>
        IN [title |-> SlideTitle(texts, "Slide " \o ToString(i)),
            content |-> SlideContent("part_002", texts),
            notes |-> IF i \in notesPresent THEN NotesText(i)
                      ELSE NotesPlaceholder("part_002"),
            index |-> i - 1]]

ParsePptx(parser, archive) ==
  IF parser = "pptxParser" THEN ParseByRelationship(archive)
  ELSE ParseByCounter(archive)

\* pptVars in the specifications that do not use them
PptIdle ==
  /\ pImpl = "none" /\ pArchive = [files |-> <<>>, rel |-> <<>>]
  /\ pPc = "idle" /\ pSlides = <<>>

\* parsePptxNotes resolves with { slides }
PptxParsed ==
  /\ pPc = "parsing"
  /\ pImpl = "pptxParser" => Len(pArchive.files) > 0
  /\ pSlides' = ParsePptx(pImpl, pArchive)
  /\ pPc' = "done"
  /\ UNCHANGED <<pImpl, pArchive>>
  /\ UNCHANGED notPpt

\* pptxParser.js: `if (slides.length === 0) throw`
PptxParseFails ==
  /\ pPc = "parsing"
  /\ pImpl = "pptxParser" /\ Len(pArchive.files) = 0
  /\ pPc' = "failed"
  /\ UNCHANGED <<pImpl, pArchive, pSlides>>
  /\ UNCHANGED notPpt

(***************************************************************************)
(* drawFrame, passthrough path: the image scaled into the canvas           *)
(*                                                                         *)
(* Sizes are positive integers; the quotients and products of lines        *)
(* 150-153 are rational numbers, written [n, d] with d > 0.                *)
(***************************************************************************)
MaxImage == 4     \* img.width, img.height in 1..MaxImage
MaxCanvas == 4    \* canvas.width, canvas.height in 1..MaxCanvas

Frac(n, d) == [n |-> n, d |-> d]
FracLeq(a, b) == a.n * b.d <= b.n * a.d
FracEq(a, b) == a.n * b.d = b.n * a.d
FracMin(a, b) == IF FracLeq(a, b) THEN a ELSE b
FracMax(a, b) == IF FracLeq(a, b) THEN b ELSE a
FracTimes(k, a) == Frac(k * a.n, a.d)
\* (k - a) / 2
HalfOfRest(k, a) == Frac(k * a.d - a.n, 2 * a.d)

\* a scale factor that fills the canvas and crops
Ratio_Cover(canvas, img) ==
  FracMax(Frac(canvas.width, img.width), Frac(canvas.height, img.height))

\* Math.min(canvas.width / img.width, canvas.height / img.height)
Ratio(canvas, img) ==
  FracMin(Frac(canvas.width, img.width), Frac(canvas.height, img.height))

Sizes(m) == [width : 1..m, height : 1..m]
NotDrawn == [ratio |-> Frac(0, 1), nw |-> Frac(0, 1), nh |-> Frac(0, 1),
             x |-> Frac(0, 1), y |-> Frac(0, 1)]

\* boxVars in the specifications that do not use them
BoxIdle ==
  /\ bImg = [width |-> 0, height |-> 0]
  /\ bCanvas = [width |-> 0, height |-> 0]
  /\ bPc = "idle"
  /\ bDrawn = NotDrawn

\* the image has loaded: ratio, nw, nh and
\* ctx.drawImage(img, (canvas.width - nw) / 2, (canvas.height - nh) / 2, nw, nh)
BoxDrawImage ==
  /\ bPc = "loaded"
  /\ LET ratio == Ratio(bCanvas, bImg)
         nw == FracTimes(bImg.width, ratio)
         nh == FracTimes(bImg.height, ratio)
     IN bDrawn' = [ratio |-> ratio, nw |-> nw, nh |-> nh,
                   x |-> HalfOfRest(bCanvas.width, nw),
                   y |-> HalfOfRest(bCanvas.height, nh)]
  /\ bPc' = "drawn"
  /\ UNCHANGED <<bImg, bCanvas>>
  /\ UNCHANGED notBox

(***************************************************************************)
(* decodeAudioData: 16-bit PCM payload -> AudioBuffer                      *)
(*                                                                         *)
(* The payload is the byte array decode(base64) returns (a fresh           *)
(* Uint8Array: byteOffset 0).  An amplitude is the rational [n, d].        *)
(***************************************************************************)
MaxBytes == 4     \* bytes of a payload

Bytes == {0, 1, 127, 128, 255}
Payloads == SeqsUpTo(Bytes, MaxBytes)

\* the arguments of the four call sites: decodeAudioData(bytes, audioCtx,
\* 24000, 1)
SampleRate == 24000
NumChannels == 1

\* the copies that construct the Int16Array over the whole buffer, with no
\* length: new Int16Array(buffer.slice(...)) / new Int16Array(data.buffer)
WholeBufferImpls == {"js1", "old"}

\* element i (0-based) of an Int16Array over the bytes (little-endian host)
Int16At(data, i) ==
  LET v == data[2 * i + 1] + 256 * data[2 * i + 2]
  IN IF v >= 32768 THEN v - 65536 ELSE v

\* the length of the Int16Array: `data.byteLength / 2` given as the length
\* argument is truncated to an integer
Int16Length(data) == Len(data) \div 2

\* the Int16Array constructor throws RangeError when it is to cover a whole
\* buffer whose byte length is not a multiple of 2
ViewThrows(im, data) == im \in WholeBufferImpls /\ Len(data) % 2 # 0

\* `dataInt16[i * numChannels + channel] / 32768.0`
Normalize(s) == Frac(s, 32768)

NoBuffer == [numberOfChannels |-> 0, sampleRate |-> 0, channelData |-> <<>>]

\* pcmVars in the specifications that do not use them
PcmIdle ==
  /\ dImpl = "none" /\ dData = <<>> /\ dPc = "idle"
  /\ dInt16 = <<>> /\ dBuffer = NoBuffer

\* the Int16Array is constructed over the payload
PcmViewed ==
  /\ dPc = "start"
  /\ ~ViewThrows(dImpl, dData)
  /\ dInt16' = [i \in 1..Int16Length(dData) |-> Int16At(dData, i - 1)]
  /\ dPc' = "viewed"
  /\ UNCHANGED <<dImpl, dData, dBuffer>>
  /\ UNCHANGED notPcm

\* the Int16Array constructor throws
PcmViewFails ==
  /\ dPc = "start"
  /\ ViewThrows(dImpl, dData)
  /\ dPc' = "failed"
  /\ UNCHANGED <<dImpl, dData, dInt16, dBuffer>>
  /\ UNCHANGED notPcm

\* ctx.createBuffer(numChannels, frameCount, sampleRate) and the loops that
\* fill its channel
PcmDecoded ==
  /\ dPc = "viewed"
  /\ LET frameCount == Len(dInt16) \div NumChannels
     IN /\ frameCount > 0
        /\ dBuffer' =
             [numberOfChannels |-> NumChannels,
              sampleRate |-> SampleRate,
              channelData |->
                [i \in 1..frameCount |->
                   Normalize(dInt16[(i - 1) * NumChannels + 1])]]
  /\ dPc' = "done"
  /\ UNCHANGED <<dImpl, dData, dInt16>>
  /\ UNCHANGED notPcm

\* createBuffer throws NotSupportedError for a length of 0
PcmBufferFails ==
  /\ dPc = "viewed"
  /\ Len(dInt16) \div NumChannels = 0
  /\ dPc' = "failed"
  /\ UNCHANGED <<dImpl, dData, dInt16, dBuffer>>
  /\ UNCHANGED notPcm

(***************************************************************************)
(* drawFrame, synthesized layout: the bullet lines of a slide without      *)
(* image                                                                   *)
(*                                                                         *)
(* The slide's XML has lRuns non-empty text runs "Text 1", "Text 2", ...;  *)
(* the extractor takes the first as the title and a slice of the rest as   *)
(* content, and drawFrame draws the content line by line on the canvas     *)
(* createVideo has sized.                                                  *)
(***************************************************************************)
MaxRuns == 16     \* text runs of a slide

TextRuns(n) == [k \in 1..n |-> "Text " \o ToString(k)]

\* `canvas.height = 720`
CanvasHeight == 720

\* `const y = 240 + i * 60`
BulletY(i) == 240 + i * 60

\* `canvas.height - 60`: the baseline of `PAGE n`
MarkerY(height) == height - 60

\* layVars in the specifications that do not use them
LayIdle ==
  /\ lParser = "none" /\ lRuns = 0 /\ lPc = "idle" /\ lContent = <<>>
  /\ lDrawn = <<>> /\ lMarker = 0

\* parsePptxNotes has extracted the slide's title and content
LayoutParsed ==
  /\ lPc = "parse"
  /\ lContent' = SlideContent(lParser, TextRuns(lRuns))
  /\ lPc' = "draw"
  /\ UNCHANGED <<lParser, lRuns, lDrawn, lMarker>>
  /\ UNCHANGED notLay

\* one call of the callback of `slide.content.forEach((text, i) => ...)`
LayoutDrawBullet ==
  /\ lPc = "draw"
  /\ Len(lDrawn) < Len(lContent)
  /\ LET i == Len(lDrawn)
     IN lDrawn' = Append(lDrawn, [text |-> lContent[i + 1], y |-> BulletY(i)])
  /\ UNCHANGED <<lParser, lRuns, lPc, lContent, lMarker>>
  /\ UNCHANGED notLay

\* after the bullets (or, for an empty content, the wrapped notes): the page
\* number
LayoutDrawMarker ==
  /\ lPc = "draw"
  /\ Len(lDrawn) = Len(lContent)
  /\ lMarker' = MarkerY(CanvasHeight)
  /\ lPc' = "done"
  /\ UNCHANGED <<lParser, lRuns, lContent, lDrawn>>
  /\ UNCHANGED notLay

(***************************************************************************)
(* drawFrame.wrapText                                                      *)
(*                                                                         *)
(* A text is the array text.split('') of its characters.  Widths are in    *)
(* an abstract unit; ctx.measureText(s).width is the sum of the advances   *)
(* of the characters of s, less the kerning of each adjacent pair.         *)
(***************************************************************************)
MaxTextLen == 6   \* characters of a notes string
MaxWidth == 5     \* the largest maxWidth

Glyphs == {"i", "A", "V"}

Advance(c) == IF c = "i" THEN 1 ELSE 3
Kerning(a, b) == IF a = "A" /\ b = "V" THEN 1 ELSE 0

RECURSIVE MeasureText(_)
MeasureText(s) ==
  IF Len(s) = 0 THEN 0
  ELSE IF Len(s) = 1 THEN Advance(s[1])
  ELSE MeasureText(SubSeq(s, 1, Len(s) - 1)) + Advance(s[Len(s)])
         - Kerning(s[Len(s) - 1], s[Len(s)])

\* a test that lets a line grow one unit past maxWidth
Overflows_Lax(width, maxWidth) == width > maxWidth + 1

\* `metrics.width > maxWidth`
Overflows(width, maxWidth) == width > maxWidth

\* wrapVars in the specifications that do not use them
WrapIdle ==
  /\ wText = <<>> /\ wMaxWidth = 0 /\ wPc = "idle" /\ wN = 0
  /\ wLine = <<>> /\ wLines = <<>> /\ wShown = <<>>

\* a wrap that starts the next line empty
StartLine_Empty(word) == <<>>

\* `line = words[n]`: the character that did not fit starts the next line
StartLine(word) == <<word>>

\* `lines.slice(0, 5)` with the baselines `240 + i * 45`
ShownLines(lines) ==
  [k \in 1..(IF Len(lines) < 5 THEN Len(lines) ELSE 5) |->
     [text |-> lines[k], y |-> 240 + (k - 1) * 45]]

\* one iteration of `for (let n = 0; n < words.length; n++)`
WrapStep ==
  /\ wPc = "loop"
  /\ wN < Len(wText)
  /\ LET testLine == Append(wLine, wText[wN + 1])
     IN IF Overflows(MeasureText(testLine), wMaxWidth) /\ wN > 0
        THEN /\ wLines' = Append(wLines, wLine)
             /\ wLine' = StartLine(wText[wN + 1])
        ELSE /\ wLine' = testLine
             /\ UNCHANGED wLines
  /\ wN' = wN + 1
  /\ UNCHANGED <<wText, wMaxWidth, wPc, wShown>>
  /\ UNCHANGED notWrap

\* after the loop: `lines.push(line); return lines`
WrapReturn ==
  /\ wPc = "loop"
  /\ wN = Len(wText)
  /\ wLines' = Append(wLines, wLine)
  /\ wPc' = "done"
  /\ UNCHANGED <<wText, wMaxWidth, wN, wLine, wShown>>
  /\ UNCHANGED notWrap

\* `lines.slice(0, 5).forEach((line, i) => ctx.fillText(line, 80, ...))`
WrapDraw ==
  /\ wPc = "done"
  /\ wShown' = ShownLines(wLines)
  /\ wPc' = "drawn"
  /\ UNCHANGED <<wText, wMaxWidth, wN, wLine, wLines>>
  /\ UNCHANGED notWrap

WrapInit ==
  /\ wText \in SeqsUpTo(Glyphs, MaxTextLen)
  /\ wMaxWidth \in 1..MaxWidth
  /\ wPc = "loop" /\ wN = 0 /\ wLine = <<>> /\ wLines = <<>> /\ wShown = <<>>
  /\ AppIdle
  /\ JoinIdle
  /\ SpeechIdle
  /\ RecIdle
  /\ BoxIdle
  /\ PptIdle
  /\ PcmIdle
  /\ LayIdle

WrapNext ==
  \/ WrapStep
  \/ WrapReturn
  \/ WrapDraw

SpecWrap == WrapInit /\ [][WrapNext]_vars

\* libVars in the specifications that do not use them
LibIdle == WrapIdle /\ BoxIdle /\ PptIdle /\ PcmIdle /\ LayIdle

LayInit ==
  /\ lParser \in PptxParsers
  /\ lRuns \in 0..MaxRuns
  /\ lPc = "parse" /\ lContent = <<>> /\ lDrawn = <<>> /\ lMarker = 0
  /\ AppIdle
  /\ JoinIdle
  /\ SpeechIdle
  /\ RecIdle
  /\ WrapIdle
  /\ BoxIdle
  /\ PptIdle
  /\ PcmIdle

LayNext ==
  \/ LayoutParsed
  \/ LayoutDrawBullet
  \/ LayoutDrawMarker

SpecLayout == LayInit /\ [][LayNext]_vars

BoxInit ==
  /\ bImg \in Sizes(MaxImage)
  /\ bCanvas \in Sizes(MaxCanvas)
  /\ bPc = "loaded"
  /\ bDrawn = NotDrawn
  /\ AppIdle
  /\ JoinIdle
  /\ SpeechIdle
  /\ RecIdle
  /\ WrapIdle
  /\ PptIdle
  /\ PcmIdle
  /\ LayIdle

BoxNext == BoxDrawImage

SpecBox == BoxInit /\ [][BoxNext]_vars

PptInit ==
  /\ pImpl \in PptxParsers
  /\ pArchive \in Archives
  /\ pPc = "parsing"
  /\ pSlides = <<>>
  /\ AppIdle
  /\ JoinIdle
  /\ SpeechIdle
  /\ RecIdle
  /\ WrapIdle
  /\ BoxIdle
  /\ PcmIdle
  /\ LayIdle

PptNext ==
  \/ PptxParsed
  \/ PptxParseFails

SpecPpt == PptInit /\ [][PptNext]_vars

PcmInit ==
  /\ dImpl \in SpeechImpls
  /\ dData \in Payloads
  /\ dPc = "start"
  /\ dInt16 = <<>>
  /\ dBuffer = NoBuffer
  /\ AppIdle
  /\ JoinIdle
  /\ SpeechIdle
  /\ RecIdle
  /\ WrapIdle
  /\ BoxIdle
  /\ PptIdle
  /\ LayIdle

PcmNext ==
  \/ PcmViewed
  \/ PcmViewFails
  \/ PcmDecoded
  \/ PcmBufferFails

SpecPcm == PcmInit /\ [][PcmNext]_vars

(***************************************************************************)
(* The specifications                                                      *)
(***************************************************************************)
Init ==
  /\ impl \in {"react", "script"}
  /\ encoderOk \in BOOLEAN
  /\ targetFile = 0 /\ fileType = "none"
  /\ analysis = NoAnalysis /\ status = "idle" /\ progress = 0
  /\ errorMsg = "" /\ errorModal = FALSE /\ videoUrl = 0
  /\ ops = [o \in Slots |-> NoOp]
  /\ JoinIdle
  /\ SpeechIdle
  /\ RecIdle
  /\ LibIdle

Next ==
  \/ \E f \in Files : SelectFile(f)
  \/ \E f \in Files : SelectRefused(f)
  \/ \E o \in Slots : ClickStartAnalysis(o)
  \/ \E o \in Slots : ClickPptxDirect(o)
  \/ \E o \in Slots : AnalysisReadDone(o)
  \/ \E o \in Slots : AnalysisRenderDone(o)
  \/ \E o \in Slots : AnalysisParseDone(o)
  \/ \E o \in Slots, raw \in AllAppAiResults : AnalysisDone(o, raw)
  \/ \E o \in Slots : AnalysisFails(o)
  \/ \E o \in Slots : ClickCreateVideo(o)
  \/ \E o \in Slots : VideoSynthDone(o)
  \/ \E o \in Slots : VideoSynthFails(o)
  \/ \E o \in Slots : VideoStabilized(o)
  \/ \E o \in Slots : VideoDrawDone(o)
  \/ \E o \in Slots : VideoImageFails(o)
  \/ \E o \in Slots : VideoHoldElapsed(o)
  \/ \E o \in Slots : VideoRecorderStopped(o)
  \/ \E o \in Slots : VideoContextClosed(o)

Spec == Init /\ [][Next]_vars

SpeechNext ==
  \/ SpeechSanitize
  \/ SpeechInvoke
  \/ SpeechAttemptOk
  \/ SpeechAttemptFails
  \/ SpeechBackoffElapsed

\* React startAnalysis, PPTX branch (lines 86-100): the analysis is installed
\* with the presentation's slides, notes from the analysis where a slide's
\* notes are the placeholder line 93 tests for
JoinInstallPptx ==
  /\ jImpl = "pptx" /\ ~jDone
  /\ jSlides' = PptxFinalSlides(jPpt, AnalyzedSlides("react", jAi))
  /\ jDone' = TRUE
  /\ UNCHANGED <<jImpl, jN, jPpt, jAi>>
  /\ UNCHANGED <<appVars, speechVars, recVars, libVars>>

JoinNext ==
  \/ JoinInstallReact
  \/ JoinInstallScript
  \/ JoinInstallPptx

JoinInit ==
  /\ \/ /\ jImpl \in {"react", "script"}
        /\ jN \in 1..MaxPages
        /\ jPpt = <<>>
     \/ /\ jImpl = "pptx"
        /\ \E parser \in PptxParsers, n \in 1..MaxPptSlides :
             \E own \in [1..n -> OwnNotes] : jPpt = ParsedPptx(parser, own)
        /\ jN = Len(jPpt)
  /\ jAi \in AiResults
  /\ jSlides = <<>>
  /\ jDone = FALSE
  /\ SpeechIdle
  /\ AppIdle
  /\ RecIdle
  /\ LibIdle

SpeechInit ==
  /\ sImpl \in SpeechImpls
  /\ sText \in Scripts
  /\ sPc = "start"
  /\ sSafeText = <<>>
  /\ sRetries = 0 /\ sDelay = 0 /\ sCalls = 0
  /\ sSubmitted = <<>> /\ sWaits = <<>> /\ sHist = <<>> /\ sResp = <<>>
  /\ sResult = 0 /\ sError = 0
  /\ JoinIdle
  /\ AppIdle
  /\ RecIdle
  /\ LibIdle

RecInit ==
  /\ rImpl \in {"react", "script"}
  /\ rSupported \in SUBSET Range(MimeTypes)
  /\ rSlides \in RecSlides
  /\ rPc = "synth" /\ rI = 0
  /\ rStatus = "audio_generating" /\ rError = "" /\ rModal = FALSE
  /\ rRec = "none" /\ rMime = "" /\ rPromise = "none" /\ rErrored = FALSE
  /\ rDelivered = <<>> /\ rChunks = <<>> /\ rBlob = <<>> /\ rBlobs = 0
  /\ rUrl = FALSE /\ rCtx = "running" /\ rCloses = 0 /\ rPlaying = FALSE
  /\ rLog = <<>>
  /\ rSynth = <<SynthStart(0)>>
  /\ JoinIdle
  /\ SpeechIdle
  /\ AppIdle
  /\ LibIdle

RecNext ==
  \/ RecSynthDone
  \/ RecSynthFails
  \/ RecStabilized
  \/ RecDrawDone
  \/ RecImageFails
  \/ \E stopThrows \in BOOLEAN : RecHoldElapsed(stopThrows)
  \/ \E size \in ChunkSizes : RecDataAvailable(size)
  \/ \E size \in ChunkSizes : RecRecorderStopped(size)
  \/ \E size \in ChunkSizes : RecEncoderError(size)
  \/ RecContextClosed

SpecJoin == JoinInit /\ [][JoinNext]_vars
SpecSpeech == SpeechInit /\ [][SpeechNext]_vars
SpecRec == RecInit /\ [][RecNext]_vars
\* every timer, image load, voice-service call and recorder event that is
\* pending eventually settles
SpecRecLive == RecInit /\ [][RecNext]_vars /\ WF_vars(RecNext)

(***************************************************************************)
(* Claims checked under SpecJoin                                           *)
(***************************************************************************)

\* C1: after the analysis of a document of N pages, whatever entries the
\* analysis result lists, the presentation placed in review has exactly N
\* slides and their pageIndex values are 0, 1, ..., N-1 in this order.
C1_ExactlyNSlidesInPageOrder ==
  jDone =>
    /\ Len(jSlides) = jN
    /\ \A p \in 1..jN : jSlides[p].pageIndex = p - 1

\* C2: for every page index i of the document, final slide i exists; when
\* the analysis result has no entry for i it carries the placeholder title of
\* page i+1 and the placeholder notes; and for an entry for i whose title and
\* notes are non-empty, slide i carries that entry's title and notes.
C2_PlaceholderOrEntryUnchanged ==
  jDone =>
    \A i \in 0..(jN - 1) :
      /\ Len(jSlides) > i
      /\ (\A k \in 1..Len(jAi) : jAi[k].pageIndex # i) =>
           /\ jSlides[i + 1].title = PlaceholderTitle(i)
           /\ jSlides[i + 1].notes = PlaceholderNotes
      /\ \A k \in 1..Len(jAi) :
           (jAi[k].pageIndex = i /\ jAi[k].title # "" /\ jAi[k].notes # "") =>
             /\ jSlides[i + 1].title = jAi[k].title
             /\ jSlides[i + 1].notes = jAi[k].notes

(***************************************************************************)
(* Claims checked under Spec                                               *)
(***************************************************************************)

\* the chain idle -> analyzing -> reviewing -> audio_generating ->
\* video_recording -> completed
PhaseSuccessor(s) ==
  CASE s = "idle" -> "analyzing"
    [] s = "analyzing" -> "reviewing"
    [] s = "reviewing" -> "audio_generating"
    [] s = "audio_generating" -> "video_recording"
    [] s = "video_recording" -> "completed"
    [] OTHER -> "none"

\* C3: every change of the phase is the reset to idle of a file selection, a
\* step to error, or a step to the immediate successor in the chain.
C3_NoPhaseSkipped ==
  [][status' # status =>
       \/ status' = "idle"
       \/ status' = "error"
       \/ status' = PhaseSuccessor(status)]_vars

\* C4: once the phase is error it stays error, whatever completes later.
C4_ErrorIsTerminal ==
  [][status = "error" => status' = "error"]_vars

\* C5: whenever a failure has been reported (an error message is shown), the
\* phase is error; it is not left at analyzing, audio_generating or
\* video_recording.
C5_ReportedFailureMeansPhaseError ==
  errorMsg # "" => status = "error"

\* C6: while the phase is error no output artifact is exposed.
C6_NoArtifactInError ==
  status = "error" => videoUrl = 0

(***************************************************************************)
(* Claims checked under SpecSpeech                                         *)
(***************************************************************************)

\* C7: narration synthesis invokes the voice service at most 1 + 3 times;
\* when it throws the error of a failed attempt, the service has been invoked
\* exactly 4 times, every attempt failed, the error thrown is the one of the
\* 4th attempt and no value is returned.
C7_AtMostFourCallsLastErrorThrown ==
  /\ sCalls <= 1 + 3
  /\ (sPc = "thrown" /\ sError # -1) =>
       /\ sCalls = 4
       /\ sHist = <<"fail", "fail", "fail", "fail">>
       /\ sError = 4
       /\ sResult = 0

\* C7 restricted to the three copies that wrap the call in withRetry
C7_HoldsWhereWithRetryExists ==
  sImpl \in RetryImpls => C7_AtMostFourCallsLastErrorThrown

\* C8: the wait before retry k is base * 2^(k-1), and a wait precedes every
\* retry and none follows the final failure (each invocation but the first
\* was preceded by exactly one wait).
C8_BackoffDoubles ==
  sImpl \in RetryImpls =>
    /\ \A k \in 1..Len(sWaits) : sWaits[k] = DefaultDelay(sImpl) * 2^(k - 1)
    /\ (sPc \in {"inflight", "returned", "thrown"} /\ sCalls >= 1) =>
         Len(sWaits) = sCalls - 1

\* C9: when the first j attempts (0 <= j <= 3) failed, no error has been
\* surfaced; and when attempt j+1 then succeeded, generateSpeechForText has
\* returned the clip of attempt j+1, with no error and no further attempt.
C9_SucceedsAfterUpToThreeFailures ==
  sImpl \in RetryImpls =>
    \A j \in 0..3 :
      /\ sHist = [k \in 1..j |-> "fail"] => sPc # "thrown" \/ sError = -1
      /\ sHist = [k \in 1..(j + 1) |-> IF k <= j THEN "fail" ELSE "ok"] =>
           /\ sPc = "returned"
           /\ sResult = j + 1
           /\ sCalls = j + 1
           /\ sError = 0

\* fail, fail, succeed: the clip of the third attempt is returned
C9_Witness ==
  /\ sImpl \in RetryImpls
  /\ sHist = <<"fail", "fail", "ok">>
  /\ sPc = "returned" /\ sResult = 3 /\ sError = 0

\* C10: every script submitted to the voice service is non-empty: it is the
\* placeholder phrase when the input is blank (empty, white space only or
\* missing) and the trimmed input otherwise.
C10_SubmittedScriptNonEmpty ==
  \A k \in 1..Len(sSubmitted) :
    /\ sSubmitted[k] # <<>>
    /\ sSubmitted[k] =
         IF sText = Undefined \/ Trim(sText) = <<>>
         THEN PlaceholderPhrase(sImpl)
         ELSE Trim(sText)

\* C11: every attempt whose response carries no audio payload or signals a
\* content-safety rejection fails, and a clip is returned only from a response
\* that carried an audio payload and no safety rejection.
C11_NoClipFromRejectedResponse ==
  sImpl \in RetryImpls =>
    /\ \A k \in 1..Len(sResp) :
         sResp[k] \in {"empty", "safety_audio", "safety_empty"} =>
           sHist[k] = "fail"
    /\ sPc = "returned" => sResp[sResult] = "audio"

(***************************************************************************)
(* Claims checked under SpecRec                                            *)
(***************************************************************************)

\* C12: when capture begins (recorder.start), the frame of slide 0 has
\* already been rendered onto the canvas.
C12_FirstFrameBeforeCaptureStarts ==
  \A k \in 1..Len(rLog) :
    rLog[k].ev = "start" =>
      \E j \in 1..(k - 1) : rLog[j].ev = "draw" /\ rLog[j].i = 0

\* the events of the slide loop, in order
SlideEvents ==
  SelectSeq(rLog, LAMBDA e : e.ev \in {"draw", "play", "held"})

RECURSIVE SumHolds(_)
SumHolds(s) == IF s = <<>> THEN 0 ELSE Head(s).d + SumHolds(Tail(s))

RECURSIVE SumDurationsWithMargin(_)
SumDurationsWithMargin(s) ==
  IF s = <<>> THEN 0
  ELSE Head(s).duration + 1000 + SumDurationsWithMargin(Tail(s))

\* C13: the slide loop goes draw 0, play 0, hold 0, draw 1, play 1, hold 1,
\* ...: one slide at a time in index order, the frame before the audio, the
\* next slide only after the hold; each hold lasts the clip's duration plus
\* the 1-second margin; and when the run has stopped the recorder itself the
\* holds add up to the sum over all slides of (duration + margin).
C13_SlidesInOrderHeldForClipPlusMargin ==
  /\ \A k \in 1..Len(SlideEvents) :
       /\ SlideEvents[k].i = (k - 1) \div 3
       /\ SlideEvents[k].ev = <<"draw", "play", "held">>[((k - 1) % 3) + 1]
       /\ SlideEvents[k].ev = "held" =>
            SlideEvents[k].d = rSlides[SlideEvents[k].i + 1].duration + 1000
  /\ (\E k \in 1..Len(rLog) : rLog[k].ev = "stop") =>
       SumHolds(SelectSeq(rLog, LAMBDA e : e.ev = "held"))
         = SumDurationsWithMargin(rSlides)

\* a two-slide run has completed: both slides were drawn, played and held
C13_Witness ==
  /\ rStatus = "completed"
  /\ Len(rSlides) = 2
  /\ rSlides[1].duration # rSlides[2].duration
  /\ Len(SlideEvents) = 6
  /\ ~rErrored

\* positions in the timeline at which capture ended: recorder.stop() or an
\* encoder error
CaptureEnds == {k \in 1..Len(rLog) : rLog[k].ev \in {"stop", "encoder_error"}}

\* C14: in a run that ends completed, capture ended exactly once, after the
\* hold of the last slide; no frame was drawn and no clip started after it;
\* and no clip was started before the stabilisation wait was over.
C14_StopOnceAfterLastHold ==
  rStatus = "completed" =>
    /\ Cardinality(CaptureEnds) = 1
    /\ \A s \in CaptureEnds :
         /\ \E k \in 1..(s - 1) :
              rLog[k].ev = "held" /\ rLog[k].i = Len(rSlides) - 1
         /\ \A k \in (s + 1)..Len(rLog) : rLog[k].ev \notin {"draw", "play"}
    /\ \A k \in 1..Len(rLog) :
         rLog[k].ev = "play" =>
           \E j \in 1..(k - 1) : rLog[j].ev = "stabilized"

\* C14 on the runs in which the encoder raised no error
C14_HoldsWithoutEncoderError ==
  ~rErrored => C14_StopOnceAfterLastHold

(***************************************************************************)
(* Claims checked under SpecRecLive                                        *)
(***************************************************************************)

\* C15: every video-generation run eventually reaches completed or error.
C15_RunReachesCompletedOrError ==
  <>(rStatus \in {"completed", "error"})

(***************************************************************************)
(* Claims checked under SpecRec (continued)                                *)
(***************************************************************************)

\* C16: once the encoder has raised an error during an open recording, the
\* promise that yields the finished blob is rejected.
C16_EncoderErrorRejectsPromise ==
  rErrored => rPromise = "rejected"

\* C17: no run ends (completed or failed, the function has gone through
\* finally) with its recorder still in the recording state.
C17_RecorderStoppedWhenRunEnds ==
  rPc \in {"closing", "done"} => rRec # "recording"

\* C18: the audio context is closed at most once, and exactly once when the
\* run is over; when it is closed the recorder has been stopped, the promise
\* of the blob is settled and no clip is playing into the recording.
C18_ContextClosedOnceAfterLastUse ==
  /\ rCloses <= 1
  /\ rPc = "done" => rCloses = 1
  /\ rCtx = "closed" =>
       /\ rRec # "recording"
       /\ rPromise # "pending"
       /\ ~rPlaying

\* C18 on the React copy, whose runs that end do close the context once and
\* after the recorder has stopped
C18_HoldsInReactRunsThatEnd ==
  rImpl = "react" => C18_ContextClosedOnceAfterLastUse

\* the first type of the preference list that the runtime supports (0: none)
FirstSupportedIndex ==
  IF \E k \in 1..Len(MimeTypes) : MimeTypes[k] \in rSupported
  THEN CHOOSE k \in 1..Len(MimeTypes) :
         /\ MimeTypes[k] \in rSupported
         /\ \A j \in 1..(k - 1) : MimeTypes[j] \notin rSupported
  ELSE 0

\* C19: once the synthesis loop is over, the recorder has been opened with
\* the first supported type of the preference list; when no type is
\* supported no recorder exists and the unsupported-encoder error is shown.
C19_FirstSupportedTypeOrError ==
  (rPc # "synth" /\ rError # "speech synthesis failed") =>
    IF FirstSupportedIndex = 0
    THEN /\ rRec = "none"
         /\ rError = "recording not supported"
         /\ rLog = <<>>
    ELSE /\ rRec # "none"
         /\ rMime = MimeTypes[FirstSupportedIndex]

\* C20: the chunk list holds exactly the non-empty chunks delivered so far,
\* in arrival order, and a blob that was built holds those chunks; the run's
\* own recorder.stop() builds the blob once.
C20_OnlyNonEmptyChunksInOrder ==
  /\ rChunks = SelectSeq(rDelivered, LAMBDA c : c.size > 0)
  /\ rBlobs > 0 => rBlob = SelectSeq(rDelivered, LAMBDA c : c.size > 0)
  /\ rBlobs <= 1

\* C19 and C20 on the script copy, which negotiates the type and filters the
\* chunks
C19_C20_HoldInScript ==
  rImpl = "script" =>
    C19_FirstSupportedTypeOrError /\ C20_OnlyNonEmptyChunksInOrder

(***************************************************************************)
(* Progress of a createVideo run                                           *)
(***************************************************************************)

\* the createVideo call in slot o is between its first status update and
\* the end of its try block
VideoRunning(o) ==
  /\ ops[o].kind = "video"
  /\ ops[o].pc \in {"synth", "stabilize", "draw", "hold", "hung", "stopping"}

\* the call in slot o is in its synthesis loop / between recorder.start()
\* and the recorder's stop event
Synthesizing(o) == ops[o].kind = "video" /\ ops[o].pc = "synth"
Recording(o) ==
  /\ ops[o].kind = "video"
  /\ ops[o].pc \in {"stabilize", "draw", "hold", "hung", "stopping"}

\* C21: from the start of audio_generating until completed the reported
\* progress stays within 0..100 and never decreases; during narration
\* synthesis it is at most 50, during slide recording at least 50
C21_ProgressMonotoneInHalves ==
  [][\A o \in Slots :
       VideoRunning(o) /\ (VideoRunning(o)' \/ status' = "completed") =>
         /\ progress' \in 0..100
         /\ progress' >= progress
         /\ Synthesizing(o)' => progress' <= 50
         /\ Recording(o)' => progress' >= 50]_vars

(***************************************************************************)
(* Review: the application with the notes textareas of the review panel.   *)
(* The documents are one PDF of two pages and one PPTX of one slide.       *)
(***************************************************************************)
ReviewFiles == {f \in Files : f <= 2}

ReviewNext ==
  \/ \E f \in ReviewFiles : SelectFile(f)
  \/ \E f \in ReviewFiles : SelectRefused(f)
  \/ \E o \in Slots : ClickStartAnalysis(o)
  \/ \E o \in Slots : ClickPptxDirect(o)
  \/ \E o \in Slots : AnalysisReadDone(o)
  \/ \E o \in Slots : AnalysisRenderDone(o)
  \/ \E o \in Slots : AnalysisParseDone(o)
  \/ \E o \in Slots, raw \in AllAppAiResults : AnalysisDone(o, raw)
  \/ \E o \in Slots : AnalysisFails(o)
  \/ \E idx \in 1..MaxPages, newNote \in EditedNotes : NoteChange(idx, newNote)
  \/ \E o \in Slots : ClickCreateVideo(o)
  \/ \E o \in Slots : VideoSynthDone(o)
  \/ \E o \in Slots : VideoSynthFails(o)
  \/ \E o \in Slots : VideoStabilized(o)
  \/ \E o \in Slots : VideoDrawDone(o)
  \/ \E o \in Slots : VideoImageFails(o)
  \/ \E o \in Slots : VideoHoldElapsed(o)
  \/ \E o \in Slots : VideoRecorderStopped(o)
  \/ \E o \in Slots : VideoContextClosed(o)

SpecReview == Init /\ [][ReviewNext]_vars

AllPlaceholders(slides) ==
  /\ Len(slides) >= 1
  /\ \A p \in 1..Len(slides) :
       /\ slides[p].title = PlaceholderTitle(p - 1)
       /\ slides[p].notes = PlaceholderNotes

\* C23: an analysis answer that is malformed or has no slide entries for a
\* document of N >= 1 pages ends the job in error; the job never reaches
\* reviewing with every slide of the document filled by placeholder content
C23_NoReviewOfPlaceholdersOnly ==
  ~(status = "reviewing" /\ analysis.present /\ AllPlaceholders(analysis.slides))

(***************************************************************************)
(* The synthesis loop of a run                                             *)
(***************************************************************************)

\* the requests started / settled among the first k events of the timeline
SynthStarts(k) == {j \in 1..k : rSynth[j].ev = "synth_start"}
SynthSettled(k) ==
  {j \in 1..k : rSynth[j].ev \in {"synth_done", "synth_failed"}}

\* C24: within a run at most one synthesis request is in flight at any time;
\* the requests are started in ascending slide order, and the request for a
\* slide is started only after the one for the slide before it has returned
\* its clip
C24_OneSynthesisAtATimeInOrder ==
  \A k \in 1..Len(rSynth) :
    /\ Cardinality(SynthStarts(k)) - Cardinality(SynthSettled(k)) \in {0, 1}
    /\ rSynth[k].ev = "synth_start" =>
         /\ rSynth[k].i = Cardinality(SynthStarts(k - 1))
         /\ \A i \in 0..(rSynth[k].i - 1) :
              \E j \in 1..(k - 1) :
                rSynth[j].ev = "synth_done" /\ rSynth[j].i = i

\* a two-slide run has its video: both clips were requested and returned
C24_Witness ==
  /\ rStatus = "completed"
  /\ Len(rSlides) = 2
  /\ Len(rSynth) = 4

(***************************************************************************)
(* Pairing of slides and page images                                       *)
(***************************************************************************)

\* C25: every final slide carries the rendered image of page pageIndex + 1,
\* whatever order or gaps the analysis result lists its slides with (no image
\* when the document has no such page): the pairing is by pageIndex, not by
\* array position
C25_ImagePairedByPageIndex ==
  jDone =>
    \A p \in 1..Len(jSlides) :
      jSlides[p].imageUrl =
        IF jSlides[p].pageIndex < jN THEN Images(jN)[jSlides[p].pageIndex + 1]
        ELSE NoImage

\* the slide comes out of the parser with a notes placeholder
NoOwnNotes(slide) == slide.notes \in {NotesPlaceholder(q) : q \in PptxParsers}

\* C26: a PPTX slide at index k that has speaker notes keeps them; one that
\* has none takes its narration from an analysis entry whose pageIndex is k,
\* and the fixed placeholder notes when the analysis has no entry for k;
\* never the notes of an entry for another page
C26_PptxNotesByPageIndex ==
  (jDone /\ jImpl = "pptx") =>
    /\ Len(jSlides) = Len(jPpt)
    /\ \A p \in 1..Len(jPpt) :
         IF ~NoOwnNotes(jPpt[p]) THEN jSlides[p].notes = jPpt[p].notes
         ELSE IF \A k \in 1..Len(jAi) : jAi[k].pageIndex # p - 1
         THEN jSlides[p].notes = PlaceholderNotes
         ELSE \E k \in 1..Len(jAi) :
                /\ jAi[k].pageIndex = p - 1
                /\ jSlides[p].notes = OrElse(jAi[k].notes, PlaceholderNotes)

(***************************************************************************)
(* Claims checked under SpecWrap                                           *)
(***************************************************************************)

\* every single character of the text fits the available width
EachCharacterFits ==
  \A k \in 1..Len(wText) : MeasureText(<<wText[k]>>) <= wMaxWidth

RECURSIVE Concat(_)
Concat(ss) == IF ss = <<>> THEN <<>> ELSE Head(ss) \o Concat(Tail(ss))

\* C27: when every single character fits the available width, every line the
\* wrapping routine produces measures at most the available width; a text
\* wider than that is broken across lines (nothing is dropped, nothing
\* overflows)
C27_NoLineWiderThanAvailable ==
  EachCharacterFits =>
    /\ \A k \in 1..Len(wLines) : MeasureText(wLines[k]) <= wMaxWidth
    /\ MeasureText(wLine) <= wMaxWidth
    /\ wPc = "done" => Concat(wLines) = wText

\* a text wider than the available width has been wrapped into several lines
C27_Witness ==
  /\ wPc = "done"
  /\ EachCharacterFits
  /\ MeasureText(wText) > wMaxWidth
  /\ Len(wLines) >= 2

(***************************************************************************)
(* Claims checked under SpecBox                                            *)
(***************************************************************************)

FracPlus(a, b) == Frac(a.n * b.d + b.n * a.d, a.d * b.d)

NthSlideNumber(p) ==
  LET S == Range(pArchive.files)
  IN CHOOSE k \in S : Cardinality({j \in S : j <= k}) = p

\* C29: the extractor returns one slide per slide entry of the archive, in
\* ascending numeric slide-number order (slide2 before slide10), with
\* positional indexes 0..n-1, and each slide's title, content and notes come
\* from the entries of its own slide number, also when the slide numbers are
\* not contiguous
C29_SlidesInNumericOrderFromOwnEntries ==
  pPc = "done" =>
    /\ Len(pSlides) = Len(pArchive.files)
    /\ \A p \in 1..Len(pSlides) :
         LET k == NthSlideNumber(p)
         IN /\ pSlides[p].index = p - 1
            /\ pSlides[p].title = SlideTexts(k)[1]
            /\ pSlides[p].content = Tail(SlideTexts(k))
            /\ pSlides[p].notes =
                 IF pArchive.rel[k] # 0 THEN NotesText(pArchive.rel[k])
                 ELSE NotesPlaceholder(pImpl)

\* C29 holds for the extractor the application imports
C29_HoldsInPptxParser ==
  pImpl = "pptxParser" => C29_SlidesInNumericOrderFromOwnEntries

(***************************************************************************)
(* Claims checked under SpecPcm                                            *)
(***************************************************************************)

\* the complete 16-bit samples of the payload, in payload order
CompleteSamples ==
  [i \in 1..(Len(dData) \div 2) |->
     LET v == dData[2 * i - 1] + 256 * dData[2 * i]
     IN IF v >= 32768 THEN v - 65536 ELSE v]

\* C30: for a payload with at least one complete 16-bit sample the call
\* returns a clip that is mono at 24 kHz and has one frame per complete
\* sample, in payload order; the amplitude of sample s is s / 32768 and lies
\* in [-1.0, 1.0]
C30_DecodedAmplitudes ==
  (dPc \in {"done", "failed"} /\ Len(CompleteSamples) >= 1) =>
    /\ dPc = "done"
    /\ dBuffer.numberOfChannels = 1
    /\ dBuffer.sampleRate = 24000
    /\ Len(dBuffer.channelData) = Len(CompleteSamples)
    /\ \A i \in 1..Len(CompleteSamples) :
         LET a == dBuffer.channelData[i]
         IN /\ FracEq(a, Frac(CompleteSamples[i], 32768))
            /\ FracLeq(Frac(-1, 1), a) /\ FracLeq(a, Frac(1, 1))

\* C30 holds for the copies that give the Int16Array its length
C30_HoldsWithExplicitLength ==
  dImpl \notin WholeBufferImpls => C30_DecodedAmplitudes

(***************************************************************************)
(* A synthesis that fails for good                                         *)
(***************************************************************************)

\* the positions of the timeline at which a synthesis request was rejected
SynthFailures == {k \in 1..Len(rSynth) : rSynth[k].ev = "synth_failed"}

RecorderStarted == \E k \in 1..Len(rLog) : rLog[k].ev = "start"

\* C31: recording starts only after every slide has a clip: once the
\* synthesis of a slide has failed for good no later slide is synthesized, no
\* recorder is created or started, and the phase has gone from
\* audio_generating to error (never video_recording)
C31_SynthesisFailureEndsRunInError ==
  \A k \in SynthFailures :
    /\ k = Len(rSynth)
    /\ rRec = "none" /\ ~RecorderStarted
    /\ rStatus = "error"

\* C31 in the React createVideo, whose catch sets the status
C31_HoldsInReact ==
  rImpl = "react" => C31_SynthesisFailureEndsRunInError

(***************************************************************************)
(* Concurrent runs and stale requests                                      *)
(***************************************************************************)

\* the createVideo calls that are synthesizing or recording
ActiveRuns ==
  {o \in Slots : ops[o].kind = "video" /\
                 ops[o].pc \in {"synth", "stabilize", "draw", "hold", "stopping"}}

\* C32: at most one video-generation run is active at a time: no sequence of
\* file selections, analysis starts and generate-video clicks starts a second
\* createVideo while an earlier one is still synthesizing or recording
C32_AtMostOneActiveRun ==
  Cardinality(ActiveRuns) <= 1

\* C33: whenever the phase is reviewing, the analysis under review was
\* computed from the currently selected file: a request that completes after
\* another file was selected neither installs its result nor changes the
\* phase
C33_ReviewedAnalysisIsOfSelectedFile ==
  status = "reviewing" => analysis.present /\ analysis.file = targetFile

(***************************************************************************)
(* The completed phase and the frame of a file selection                   *)
(***************************************************************************)

\* C34: phase = completed implies an output artifact is present and the
\* reported progress is 100; the artifact is set only by the transition into
\* completed (after the recorder's stop event delivered the blob)
C34_CompletedHasArtifactAndFullProgress ==
  [][/\ status' = "completed" => videoUrl' # 0 /\ progress' = 100
     /\ videoUrl' # videoUrl /\ videoUrl' # 0 =>
          status' = "completed" /\ status # "completed"]_vars

\* C35: selecting a file of an accepted type records it as the target, clears
\* any previous analysis and output artifact and sets the phase to idle with
\* progress 0; selecting a file of any other type leaves the target file, the
\* analysis, the artifact and the phase unchanged
C35_SelectionResetsOrLeavesAlone ==
  [][\A f \in Files :
       /\ SelectFile(f) =>
            /\ targetFile' = f
            /\ analysis' = NoAnalysis /\ videoUrl' = 0
            /\ status' = "idle" /\ progress' = 0
       /\ SelectRefused(f) =>
            UNCHANGED <<targetFile, analysis, videoUrl, status>>]_vars

\* C35 in the React handler, which resets all of them
C35_HoldsInReact ==
  [][impl = "react" =>
       \A f \in Files :
         /\ SelectFile(f) =>
              /\ targetFile' = f
              /\ analysis' = NoAnalysis /\ videoUrl' = 0
              /\ status' = "idle" /\ progress' = 0
         /\ SelectRefused(f) =>
              UNCHANGED <<targetFile, analysis, videoUrl, status>>]_vars

(***************************************************************************)
(* The frame of a note edit                                                *)
(***************************************************************************)

\* everything of a slide but its notes
SlideFrame(slide) == [slide EXCEPT !.notes = ""]

\* C36: editing the notes of slide k in review changes only the notes of
\* slide k: the number and order of the slides, every slide's pageIndex, title
\* and image, the notes of every other slide, the presentation title and
\* summary, and the phase are all unchanged
C36_NoteEditChangesOnlyThatNote ==
  [][\A idx \in 1..MaxPages, newNote \in EditedNotes :
       NoteChange(idx, newNote) =>
         /\ Len(analysis'.slides) = Len(analysis.slides)
         /\ \A p \in 1..Len(analysis.slides) :
              /\ SlideFrame(analysis'.slides[p]) = SlideFrame(analysis.slides[p])
              /\ p # idx => analysis'.slides[p].notes = analysis.slides[p].notes
         /\ analysis'.slides[idx].notes = newNote
         /\ analysis'.presentationTitle = analysis.presentationTitle
         /\ analysis'.summary = analysis.summary
         /\ analysis'.file = analysis.file
         /\ status' = status]_vars

\* the second of two slides was edited in review, the first was not
C36_Witness ==
  /\ status = "reviewing"
  /\ Len(analysis.slides) = 2
  /\ analysis.slides[2].notes \in EditedNotes
  /\ analysis.slides[1].notes \notin EditedNotes

(***************************************************************************)
(* The bullet lines of the synthesized layout                              *)
(***************************************************************************)

\* C37: for every content list the slide-archive extractor can produce,
\* every bullet line is drawn at the baseline 240 + 60 * i, inside the canvas
\* of height 720 and not below the page-number marker at height - 60
C37_BulletsInsideCanvasAboveMarker ==
  \A k \in 1..Len(lDrawn) :
    /\ lDrawn[k].y = 240 + 60 * (k - 1)
    /\ lDrawn[k].y >= 0 /\ lDrawn[k].y <= CanvasHeight
    /\ lDrawn[k].y <= MarkerY(CanvasHeight)

\* C37 for the content lists of unnamed/part_002 (at most five entries)
C37_HoldsInPart002 ==
  lParser = "part_002" => C37_BulletsInsideCanvasAboveMarker

(***************************************************************************)
(* The wrapped notes on the frame                                          *)
(***************************************************************************)

\* C38: the wrapping routine loses and reorders nothing: the concatenation
\* of the produced lines, in order, is the input string; every produced line
\* of a non-empty input is non-empty; and the frame shows exactly the first
\* min(5, number of lines) of them, in order
C38_WrapLosesNothingFrameShowsFirstFive ==
  /\ wPc \in {"done", "drawn"} =>
       /\ Concat(wLines) = wText
       /\ wText # <<>> => \A k \in 1..Len(wLines) : wLines[k] # <<>>
  /\ wPc = "drawn" =>
       /\ Len(wShown) = IF Len(wLines) < 5 THEN Len(wLines) ELSE 5
       /\ \A k \in 1..Len(wShown) : wShown[k].text = wLines[k]
       /\ \A j, k \in 1..Len(wShown) : j < k => wShown[j].y < wShown[k].y

\* a text wrapped into more than five lines was drawn
C38_Witness ==
  /\ wPc = "drawn"
  /\ Len(wLines) > 5
  /\ Len(wShown) = 5

====
